---------------------------- MODULE Spec2Model ----------------------------
(***************************************************************************)
(* Model of the harvesting game client: the Tree resource entity (health,  *)
(* hit sequences, destruction, respawn, single-owner reservation), the     *)
(* Lumberjack/Worker behaviour loop, the WorkerManager stuck check, the    *)
(* storage building stock and the MainScene pathfinding grid.              *)
(*                                                                         *)
(* The program is single-threaded: every action below is one handler run   *)
(* to completion (a public call, a timer or animation callback, a promise  *)
(* continuation, one scene tick).  Wall-clock delays are abstracted to the *)
(* order in which the pending callbacks fire.                              *)
(***************************************************************************)
EXTENDS Integers, Naturals, Sequences, FiniteSets, Bags, TLC

VARIABLES
    tree,       \* [Trees -> Tree fields], unnamed/part_004 Tree
    seqs,       \* [Trees -> number of startAutoHitSequence runs suspended in performHit]
    watch,      \* [Trees -> number of waitForPlayerArrival pollers still running]
    hits,       \* bag of workerHarvest calls whose callbacks are still pending
    wk,         \* [Workers -> Lumberjack fields], Worker.tsx / Lumberjack.ts
    pend,       \* [Workers -> bag of scheduled continuations of that worker]
    mgr,        \* WorkerManager.workerLastPositions
    scene,      \* what the scene offers the workers: sawmill, deposit point, geometry
    stock,      \* wood stored in the sawmill
    baseGrid,   \* MainScene.baseGrid, [GridTiles -> {0, 1}]
    buildings,  \* BuildingManager.buildings, in the order they were placed
    grid,       \* the grid last handed to easyStar.setGrid
    clock,      \* Date.now() and the time-stamped blacklists of the workers
    forest,     \* mainScene.trees of a scene with several trees, and a lumberjack among them
    obs         \* observations of the calls made by the last action

worldVars == <<tree, seqs, watch, hits, wk, pend, mgr, scene, stock,
              baseGrid, buildings, grid, clock, forest, obs>>

---------------------------------------------------------------------------
(* Program constants *)

MaxHealthDefault == 100
DamagePerHitDefault == 25

(* Bounds of the model *)

MaxSeqs == 2        \* concurrent player hit sequences
MaxWatch == 1       \* concurrent player arrival pollers per tree
MaxHits == 2        \* worker hits with a pending callback per tree
MaxRespawns == 2    \* pending respawn timers per tree
MaxDup == 1         \* copies of one continuation a worker's pending bag tells apart
MaxPending == 2     \* continuations one worker has pending
MaxPendingCrowded == 1  \* the same, in the scenes with two workers or the stuck check
MaxX == 6           \* the lumberjack stands at 0 .. MaxX
MaxNow == 8         \* value of Date.now() the clock is followed up to
MaxFails == 1       \* path requests of one handler that find no path
MaxBuildings == 2   \* buildings placed at one time
MapWidth == 3       \* tiles in a row of the map
MapHeight == 2      \* rows of the map
MaxStored == 2      \* entries of the stored list of buildings

(* Program constants of the workers *)

MaxInventory == 10      \* Lumberjack config.maxInventory
WoodPerTree == 3        \* Lumberjack config.woodPerTree
MaxUnchangedCount == 3  \* WorkerManager: samples before a forced reset
Capacity == 20          \* wood capacity of the sawmill

(* Time is counted in steps of 10 s: the blacklist lasts 30 s.  Date.now() *)
(* is far from 0 when the scene starts.                                    *)
BlacklistDuration == 3
WorkRadius == 2     \* lumberjackConfig.workRadius: 500 px, in steps of 250 px
MaxCandidates == 3  \* Math.min(3, trees.length) of selectOptimalTree
ForestOrder == <<"a", "b", "c", "d">>
ForestTrees == {ForestOrder[i] : i \in 1 .. Len(ForestOrder)}
ForestAt == [a |-> 0, b |-> 2, c |-> 3, d |-> 6]
StartTime == BlacklistDuration + 1

Trees == {"t1"}
Workers == {"w1", "w2"}
NoOne == "none"

(* The map, reduced to a corridor of tiles: the worker's deposit point,    *)
(* the interaction tile of the tree, the storage point of the sawmill.     *)
DepositTile == 0
TreeTile == 1
StoreTile == 2
Tiles == {DepositTile, TreeTile, StoreTile}

IDLE == "idle"
MOVING_TO_RESOURCE == "movingToResource"
HARVESTING == "harvesting"
MOVING_TO_STORAGE == "movingToStorage"
DEPOSITING == "depositing"
WorkerState == {IDLE, MOVING_TO_RESOURCE, HARVESTING, MOVING_TO_STORAGE, DEPOSITING}

---------------------------------------------------------------------------
(* The world record the operators below transform.  An operator takes the  *)
(* world before a call and yields the world after it, so that a handler    *)
(* that makes several calls is the composition of their operators.  Each   *)
(* operator binds the world it is given once (s \in {world}) and yields    *)
(* the one world its body computes from it.                                *)

World == [tree |-> tree, seqs |-> seqs, watch |-> watch, hits |-> hits,
          wk |-> wk, pend |-> pend, mgr |-> mgr, scene |-> scene,
          stock |-> stock, baseGrid |-> baseGrid, buildings |-> buildings,
          grid |-> grid, clock |-> clock, forest |-> forest, obs |-> {}, micro |-> <<>>,
          inBounds |-> TRUE]

(* The variables take the values of the world s *)
Commit(s) ==
    /\ s.inBounds
    /\ tree' = s.tree
    /\ seqs' = s.seqs
    /\ watch' = s.watch
    /\ hits' = s.hits
    /\ wk' = s.wk
    /\ pend' = s.pend
    /\ mgr' = s.mgr
    /\ scene' = s.scene
    /\ stock' = s.stock
    /\ baseGrid' = s.baseGrid
    /\ buildings' = s.buildings
    /\ grid' = s.grid
    /\ clock' = s.clock
    /\ forest' = s.forest
    /\ obs' = s.obs

(* A handler has run: the world it leaves is the next state *)
Install(after) == \E s \in {after} : Commit(s)

NewTree == [health |-> MaxHealthDefault, maxHealth |-> MaxHealthDefault,
            damagePerHit |-> DamagePerHitDefault,
            isDestroyed |-> FALSE, isBeingHit |-> FALSE,
            currentHarvester |-> NoOne,
            healingTimer |-> FALSE, respawnTimers |-> 0]

(* A scene with several trees on a line (mainScene.trees in the order of   *)
(* ForestOrder, tree t at ForestAt[t]), the lumberjack at x with the tile  *)
(* keys it has blacklisted; ret is what findNearestResource last returned  *)
NewForest == [tree |-> [t \in ForestTrees |-> NewTree],
              x |-> 0, blacklistedTiles |-> {}, ret |-> NoOne]

(* Worker.blacklistedTiles (a Map from tile key to time stamp) of the      *)
(* lumberjack, and blacklistedTargets (a Set) with lastBlacklistCleanup of *)
(* the second worker implementation; since remembers when a target was     *)
(* last added to the Set                                                   *)
NewClock == [now |-> StartTime,
             tiles |-> [w \in Workers |-> <<>>],
             targets |-> [w \in Workers |-> {}],
             since |-> [w \in Workers |-> <<>>],
             lastBlacklistCleanup |-> [w \in Workers |-> 0]]

Observe(world, o) ==
    CHOOSE after \in {(
        [s EXCEPT !.obs = @ \cup {o}]
        ) : s \in {world}} : TRUE

(* A step that would exceed a bound of the model is not taken *)
Bounded(world, cond) ==
    CHOOSE after \in {(
        IF cond THEN s ELSE [s EXCEPT !.inBounds = FALSE]
        ) : s \in {world}} : TRUE

BagAdd(b, e) == b (+) SetToBag({e})
BagDel(b, e) == b (-) SetToBag({e})

---------------------------------------------------------------------------
(* The pathfinding grid.  The map is MapWidth x MapHeight tiles; a tile is *)
(* the pair <<x, y>> and a grid gives each tile 0 (free) or 1 (blocked).   *)

GridTiles == (0 .. MapWidth - 1) \X (0 .. MapHeight - 1)

(* The tile the tree stands on: Tree.getTreeTilePosition *)
treeTilePosition(t) == <<1, 0>>

(* Tree.isBlockingPath *)
isBlockingPath(t) == TRUE

(* The building templates: width, height and the tiles that collide *)
BuildingTypes == {"house", "sawmill"}

Template(type) ==
    IF type = "house"
    THEN [tilesWidth |-> 1, tilesHeight |-> 1, collides |-> {<<0, 0>>}]
    ELSE [tilesWidth |-> 2, tilesHeight |-> 1, collides |-> {<<0, 0>>, <<1, 0>>}]

(* A stored coordinate that is not a number; no comparison with it holds  *)
NaN == 0 - 1

(* The tiles of the map a building's colliding tiles fall on: none passes  *)
(* the bounds test of rebuildPathfindingGrid when a coordinate is NaN      *)
collidingTiles(b) ==
    IF b.x = NaN \/ b.y = NaN THEN {}
    ELSE {<<b.x + o[1], b.y + o[2]>> : o \in Template(b.type).collides}

(* MainScene.create: baseGrid computed from the collision layers *)
computeBaseGrid(collides) == [p \in GridTiles |-> IF p \in collides THEN 1 ELSE 0]

(* MainScene.copyGrid *)
copyGrid(source) == [p \in DOMAIN source |-> source[p]]

(* The grid g with the tiles of ps that lie on the map marked blocked *)
markTiles(g, ps) == [p \in DOMAIN g |-> IF p \in ps THEN 1 ELSE g[p]]

rebuildPathfindingGrid_Accumulating(world) ==
    CHOOSE after \in {(
        LET ofBuildings == UNION {collidingTiles(s.buildings[i]) : i \in DOMAIN s.buildings}
            ofTrees == {treeTilePosition(t) : t \in {x \in Trees : isBlockingPath(x)}}
        IN [s EXCEPT !.grid = [p \in DOMAIN s.grid |->
                                  IF p \in ofBuildings \cup ofTrees THEN s.grid[p] + 1
                                  ELSE s.grid[p]]]
        ) : s \in {world}} : TRUE

rebuildPathfindingGrid_SkipBuildings(world) ==
    CHOOSE after \in {(
        LET fullGrid == copyGrid(s.baseGrid)
            ofTrees == {treeTilePosition(t) : t \in {x \in Trees : isBlockingPath(x)}}
        IN [s EXCEPT !.grid = markTiles(fullGrid, ofTrees)]
        ) : s \in {world}} : TRUE

(* MainScene.rebuildPathfindingGrid *)
rebuildPathfindingGrid(world) ==
    CHOOSE after \in {(
        LET fullGrid == copyGrid(s.baseGrid)
            ofBuildings == UNION {collidingTiles(s.buildings[i]) : i \in DOMAIN s.buildings}
            ofTrees == {treeTilePosition(t) : t \in {x \in Trees : isBlockingPath(x)}}
        IN [s EXCEPT !.grid = markTiles(markTiles(fullGrid, ofBuildings), ofTrees)]
        ) : s \in {world}} : TRUE

(* MainScene.markBuildingCollisions *)
markBuildingCollisions(world, b) ==
    CHOOSE after \in {(
        [s EXCEPT !.baseGrid = markTiles(@, collidingTiles(b))]
        ) : s \in {world}} : TRUE

(* BuildingManager.placeBuilding *)
managerPlaceBuilding(world, b) ==
    CHOOSE after \in {(
        rebuildPathfindingGrid(
            Bounded([s EXCEPT !.buildings = Append(@, b)], Len(s.buildings) < MaxBuildings))
        ) : s \in {world}} : TRUE

(* BuildingManager.loadState, the forEach over the parsed entries: each    *)
(* entry is handed to placeBuilding as it is.  The TiledBuilding           *)
(* constructor throws when the type has no template; the catch of          *)
(* loadState ends the replay there.                                        *)
RECURSIVE loadFrom(_, _)
loadFrom(world, entries) ==
    CHOOSE after \in {(
        IF entries = <<>> THEN rebuildPathfindingGrid(s)
        ELSE LET e == Head(entries)
             IN IF e.type \notin BuildingTypes
                THEN Observe(s, [op |-> "replay", entry |-> e, threw |-> TRUE,
                                 dropped |-> Len(entries) - 1])
                ELSE loadFrom(Observe(managerPlaceBuilding(s, e),
                                      [op |-> "replay", entry |-> e, threw |-> FALSE,
                                       dropped |-> 0]),
                              Tail(entries))
        ) : s \in {world}} : TRUE

(* BuildingManager.loadState: a blob that JSON.parse rejects is dropped *)
loadState(world, blob) ==
    CHOOSE after \in {(
        IF blob.parses THEN loadFrom(s, blob.entries) ELSE s
        ) : s \in {world}} : TRUE

(* MainScene.checkPlacementValidity: the building lies on the map and on   *)
(* no colliding tile of the map's layers                                   *)
isValidPlacement(s, b) ==
    /\ b.x >= 0 /\ b.y >= 0
    /\ b.x + Template(b.type).tilesWidth <= MapWidth
    /\ b.y + Template(b.type).tilesHeight <= MapHeight
    /\ \A dx \in 0 .. Template(b.type).tilesWidth - 1,
          dy \in 0 .. Template(b.type).tilesHeight - 1 :
            <<b.x + dx, b.y + dy>> \notin s.scene.collides

(* MainScene.placeBuilding *)
placeBuilding(world, b) ==
    CHOOSE after \in {(
        IF isValidPlacement(s, b)
        THEN rebuildPathfindingGrid(markBuildingCollisions(managerPlaceBuilding(s, b), b))
        ELSE s
        ) : s \in {world}} : TRUE

(* BuildingManager.clearAll *)
clearAll(world) ==
    CHOOSE after \in {(
        rebuildPathfindingGrid([s EXCEPT !.buildings = <<>>])
        ) : s \in {world}} : TRUE

(* BuildingManager.clearAll as the second BuildingManager of the file      *)
(* writes it: the list is emptied and the grid is left as it is            *)
clearAllSecond(world) ==
    CHOOSE after \in {(
        [s EXCEPT !.buildings = <<>>]
        ) : s \in {world}} : TRUE

---------------------------------------------------------------------------
(* The tree *)

isAvailableForHarvest_IgnoreHolder(s, t, harvester) ==
    /\ ~s.tree[t].isDestroyed
    /\ ~s.tree[t].isBeingHit

isAvailableForHarvest_IgnoreHit(s, t, harvester) ==
    /\ ~s.tree[t].isDestroyed
    /\ (s.tree[t].currentHarvester = NoOne \/ s.tree[t].currentHarvester = harvester)

(* Tree.isAvailableForHarvest *)
isAvailableForHarvest(s, t, harvester) ==
    /\ ~s.tree[t].isDestroyed
    /\ ~s.tree[t].isBeingHit
    /\ (s.tree[t].currentHarvester = NoOne \/ s.tree[t].currentHarvester = harvester)

(* Tree.setHarvester: the returned boolean *)
setHarvesterResult(s, t, harvester) == isAvailableForHarvest(s, t, harvester)

setHarvester_Unchecked(world, t, harvester) ==
    CHOOSE after \in {(
        Observe([s EXCEPT !.tree[t].currentHarvester = harvester],
                [op |-> "setHarvester", t |-> t, who |-> harvester, ret |-> TRUE,
                 pre |-> s.tree[t]])
        ) : s \in {world}} : TRUE

(* Tree.setHarvester: the world after the call *)
setHarvester(world, t, harvester) ==
    CHOOSE after \in {(
        LET ok == setHarvesterResult(s, t, harvester)
            s1 == IF ok THEN [s EXCEPT !.tree[t].currentHarvester = harvester] ELSE s
        IN Observe(s1, [op |-> "setHarvester", t |-> t, who |-> harvester,
                        ret |-> ok, pre |-> s.tree[t]])
        ) : s \in {world}} : TRUE

(* Tree.releaseHarvester *)
releaseHarvester(world, t) ==
    CHOOSE after \in {(
        [s EXCEPT !.tree[t].currentHarvester = NoOne]
        ) : s \in {world}} : TRUE

(* Tree.startHealingTimer: the previous timer is destroyed, a new one runs *)
startHealingTimer(world, t) ==
    CHOOSE after \in {(
        [s EXCEPT !.tree[t].healingTimer = TRUE]
        ) : s \in {world}} : TRUE

(* Tree.stopAutoHit *)
stopAutoHit(world, t) ==
    CHOOSE after \in {(
        startHealingTimer([s EXCEPT !.tree[t].isBeingHit = FALSE], t)
        ) : s \in {world}} : TRUE

(* Tree.cleanup: stump shown, reservation released, respawn scheduled *)
treeCleanup(world, t) ==
    CHOOSE after \in {(
        LET s1 == IF s.tree[t].currentHarvester # NoOne THEN releaseHarvester(s, t) ELSE s
            s2 == rebuildPathfindingGrid(s1)
        IN Bounded([s2 EXCEPT !.tree[t].respawnTimers = @ + 1],
                   s.tree[t].respawnTimers < MaxRespawns)
        ) : s \in {world}} : TRUE

(* Tree.destroyTree: the player's wood event is outside the model *)
destroyTree(world, t) ==
    CHOOSE after \in {(
        treeCleanup(Observe([s EXCEPT !.tree[t].isDestroyed = TRUE],
                            [op |-> "destroy", t |-> t, by |-> "player", pre |-> s.tree[t]]), t)
        ) : s \in {world}} : TRUE

(* Tree.respawn *)
respawn(world, t) ==
    CHOOSE after \in {(
        Observe(rebuildPathfindingGrid(
                    [s EXCEPT !.tree[t].isDestroyed = FALSE,
                              !.tree[t].isBeingHit = FALSE,
                              !.tree[t].health = s.tree[t].maxHealth,
                              !.tree[t].respawnTimers = @ - 1]),
                [op |-> "respawn", t |-> t, pre |-> s.tree[t]])
        ) : s \in {world}} : TRUE

(* The healing timer's callback *)
healingCallback(world, t) ==
    CHOOSE after \in {(
        Observe([s EXCEPT !.tree[t].health = s.tree[t].maxHealth,
                          !.tree[t].healingTimer = FALSE],
                [op |-> "heal", t |-> t, pre |-> s.tree[t]])
        ) : s \in {world}} : TRUE

applyHit_Heals(world, t, by) ==
    CHOOSE after \in {(
        Observe([s EXCEPT !.tree[t].health = @ + s.tree[t].damagePerHit],
                [op |-> "hit", t |-> t, by |-> by, pre |-> s.tree[t]])
        ) : s \in {world}} : TRUE

(* One hit: currentHealth -= damagePerHit *)
applyHit(world, t, by) ==
    CHOOSE after \in {(
        Observe([s EXCEPT !.tree[t].health = @ - s.tree[t].damagePerHit],
                [op |-> "hit", t |-> t, by |-> by, pre |-> s.tree[t]])
        ) : s \in {world}} : TRUE

(* Tree.startAutoHitSequence, after its while loop *)
autoHitAfterLoop(world, t, cancelled) ==
    CHOOSE after \in {(
        LET s1 == IF ~cancelled /\ s.tree[t].health <= 0 THEN destroyTree(s, t) ELSE s
        IN [s1 EXCEPT !.tree[t].isBeingHit = FALSE]
        ) : s \in {world}} : TRUE

(* Tree.startAutoHitSequence, from the head of its while loop up to the    *)
(* await of performHit (the run is then counted in seqs) or to its end.    *)
(* moving is Tree.isPlayerMoving, read from the cursor keys.               *)
autoHitLoop(world, t, moving) ==
    CHOOSE after \in {(
        IF s.tree[t].health > 0 /\ ~s.tree[t].isDestroyed
        THEN IF moving
             THEN autoHitAfterLoop(stopAutoHit(s, t), t, TRUE)
             ELSE Bounded([applyHit(s, t, "player") EXCEPT !.seqs[t] = @ + 1],
                          s.seqs[t] < MaxSeqs)
        ELSE autoHitAfterLoop(s, t, FALSE)
        ) : s \in {world}} : TRUE

(* Tree.startAutoHitSequence(false), from its call to the first await *)
startAutoHitSequence(world, t, moving) ==
    CHOOSE after \in {(
        IF s.tree[t].isBeingHit THEN s
        ELSE autoHitLoop([s EXCEPT !.tree[t].isBeingHit = TRUE], t, moving)
        ) : s \in {world}} : TRUE

(* Tree.startAutoHitSequence resumed when performHit settles *)
autoHitResume(world, t, moving) ==
    CHOOSE after \in {(
        LET s1 == [s EXCEPT !.seqs[t] = @ - 1]
        IN IF s1.tree[t].health <= 0 THEN autoHitAfterLoop(s1, t, FALSE)
           ELSE autoHitLoop(s1, t, moving)
        ) : s \in {world}} : TRUE

(* Tree.update, once per scene tick *)
treeUpdate(world, t, overlapping) ==
    CHOOSE after \in {(
        IF s.tree[t].isDestroyed THEN s
        ELSE IF overlapping THEN s
        ELSE IF s.tree[t].isBeingHit THEN stopAutoHit(s, t)
        ELSE s
        ) : s \in {world}} : TRUE

(* Tree.workerHarvest up to the return of the promise.  A refused call     *)
(* resolves false at once: the caller's continuation is queued as a        *)
(* microtask.  An accepted call takes the hit and leaves the animation     *)
(* callback and the 2 s fallback timer pending.                            *)
workerHarvest(world, t, w) ==
    CHOOSE after \in {(
        IF s.tree[t].isDestroyed \/ s.tree[t].isBeingHit \/ s.tree[t].currentHarvester # w
        THEN [s EXCEPT !.micro = Append(@, [w |-> w, r |-> FALSE])]
        ELSE LET h == [t |-> t, w |-> w, anim |-> TRUE, fallback |-> TRUE, resolved |-> FALSE]
             IN Bounded([applyHit(s, t, w) EXCEPT !.hits = BagAdd(@, h)],
                        BagCardinality(s.hits) < MaxHits)
        ) : s \in {world}} : TRUE

(* resolve(r) of a workerHarvest promise: only the first call settles it *)
resolveHit(world, h, r) ==
    CHOOSE after \in {(
        IF h.resolved THEN s ELSE [s EXCEPT !.micro = Append(@, [w |-> h.w, r |-> r])]
        ) : s \in {world}} : TRUE

(* The hit record once one of its two callbacks has run *)
hitAfter(world, h, h2) ==
    CHOOSE after \in {(
        LET b == BagDel(s.hits, h)
        IN [s EXCEPT !.hits = IF h2.anim \/ h2.fallback THEN BagAdd(b, h2) ELSE b]
        ) : s \in {world}} : TRUE

(* workerHarvest: the tree-hit animation's completion callback *)
hitAnimationDone(world, h) ==
    CHOOSE after \in {(
        LET t == h.t
            kills == s.tree[t].health <= 0 /\ ~s.tree[t].isDestroyed
            s1 == IF kills
                  THEN treeCleanup(Observe([s EXCEPT !.tree[t].isDestroyed = TRUE],
                         [op |-> "destroy", t |-> t, by |-> h.w, pre |-> s.tree[t]]), t)
                  ELSE s
            s2 == resolveHit(s1, h, kills)
        IN hitAfter(s2, h, [h EXCEPT !.anim = FALSE, !.resolved = TRUE])
        ) : s \in {world}} : TRUE

(* workerHarvest: the fallback timer's callback *)
hitFallback(world, h) ==
    CHOOSE after \in {(
        LET t == h.t
            kills == ~s.tree[t].isDestroyed /\ s.tree[t].health <= 0
            s1 == IF kills
                  THEN treeCleanup(Observe([s EXCEPT !.tree[t].isDestroyed = TRUE],
                         [op |-> "destroy", t |-> t, by |-> h.w, pre |-> s.tree[t]]), t)
                  ELSE s
            settles == kills \/ ~s.tree[t].isDestroyed
            s2 == IF settles THEN resolveHit(s1, h, kills) ELSE s1
        IN hitAfter(s2, h, [h EXCEPT !.fallback = FALSE,
                                     !.resolved = h.resolved \/ settles])
        ) : s \in {world}} : TRUE

---------------------------------------------------------------------------
(* Worker (Worker.tsx) and Lumberjack (Lumberjack.ts)                      *)

NewWorker == [state |-> IDLE, targetResource |-> NoOne, targetStorage |-> NoOne,
              wood |-> 0, inProgress |-> FALSE,
              pos |-> DepositTile, path |-> <<>>, currentTargetIndex |-> 0,
              velocity |-> 0, blacklistedTiles |-> {}, active |-> TRUE]

Min(a, b) == IF a < b THEN a ELSE b

(* A continuation is scheduled; the bag tells at most MaxDup copies apart  *)
(* and holds at most scene.cap continuations                               *)
Schedule(world, w, c) ==
    CHOOSE after \in {(
        IF CopiesIn(c, s.pend[w]) >= MaxDup THEN s
        ELSE Bounded([s EXCEPT !.pend[w] = BagAdd(@, c)], BagCardinality(s.pend[w]) < s.scene.cap)
        ) : s \in {world}} : TRUE

Unschedule(world, w, c) ==
    CHOOSE after \in {(
        [s EXCEPT !.pend[w] = BagDel(@, c)]
        ) : s \in {world}} : TRUE

(* Worker.isInventoryFull *)
isInventoryFull(s, w) == s.wk[w].wood >= MaxInventory

addToInventory_Uncapped(s, w, amount) == amount

(* Worker.addToInventory: the amount added *)
addToInventory(s, w, amount) == Min(amount, MaxInventory - s.wk[w].wood)

(* Worker.removeFromInventory: the amount removed *)
removeFromInventory(s, w, amount) == Min(amount, s.wk[w].wood)

(* Lumberjack.releaseTarget *)
releaseTarget(world, w) ==
    CHOOSE after \in {(
        LET t == s.wk[w].targetResource
            s1 == IF t # NoOne
                  THEN Observe(releaseHarvester(s, t),
                               [op |-> "release", t |-> t, who |-> w, pre |-> s.tree[t]])
                  ELSE s
        IN [s1 EXCEPT !.wk[w].targetResource = NoOne]
        ) : s \in {world}} : TRUE

(* Lumberjack.cleanupHarvesting *)
cleanupHarvesting_KeepsTarget(world, w) ==
    CHOOSE after \in {(
        [s EXCEPT !.wk[w].inProgress = FALSE]
        ) : s \in {world}} : TRUE

cleanupHarvesting(world, w) ==
    CHOOSE after \in {(
        IF s.wk[w].inProgress
        THEN [releaseTarget(s, w) EXCEPT !.wk[w].inProgress = FALSE]
        ELSE s
        ) : s \in {world}} : TRUE

(* Worker.setState with Lumberjack.onStateChanged *)
setState(world, w, st) ==
    CHOOSE after \in {(
        IF s.wk[w].state = st THEN s
        ELSE LET from == s.wk[w].state
                 s1 == [s EXCEPT !.wk[w].state = st]
             IN IF from = HARVESTING /\ st # HARVESTING THEN cleanupHarvesting(s1, w) ELSE s1
        ) : s \in {world}} : TRUE

workerCleanup_KeepTarget(world, w) ==
    CHOOSE after \in {(
        setState([s EXCEPT !.wk[w].targetStorage = NoOne], w, IDLE)
        ) : s \in {world}} : TRUE

(* Worker.cleanup *)
workerCleanup(world, w) ==
    CHOOSE after \in {(
        LET s1 == [releaseTarget(s, w) EXCEPT !.wk[w].targetStorage = NoOne]
        IN setState(s1, w, IDLE)
        ) : s \in {world}} : TRUE

(* Lumberjack.harvestResource with startHarvesting and performHarvest *)
harvestResource(world, w) ==
    CHOOSE after \in {(
        LET t == s.wk[w].targetResource
        IN IF t = NoOne \/ s.wk[w].inProgress THEN setState(s, w, IDLE)
           ELSE IF s.tree[t].isDestroyed THEN setState(releaseTarget(s, w), w, IDLE)
           ELSE workerHarvest([s EXCEPT !.wk[w].inProgress = TRUE, !.wk[w].velocity = 0], t, w)
        ) : s \in {world}} : TRUE

(* Lumberjack.finishHarvesting *)
finishHarvesting(world, w, continueHarvesting) ==
    CHOOSE after \in {(
        LET s1 == [releaseTarget(s, w) EXCEPT !.wk[w].inProgress = FALSE]
        IN IF continueHarvesting
           THEN Schedule(setState(s1, w, HARVESTING), w, [k |-> "unlock"])
           ELSE setState(s1, w, IDLE)
        ) : s \in {world}} : TRUE

(* Lumberjack.handleHarvestResult: the continuation of the awaited         *)
(* workerHarvest promise                                                   *)
handleHarvestResult(world, w, treeDestroyed) ==
    CHOOSE after \in {(
        LET added == IF treeDestroyed THEN addToInventory(s, w, WoodPerTree) ELSE 0
            s1 == IF treeDestroyed
                  THEN Observe([s EXCEPT !.wk[w].wood = @ + added],
                               [op |-> "credit", who |-> w, amount |-> added,
                                before |-> s.wk[w].wood])
                  ELSE s
            t == s1.wk[w].targetResource
            shouldContinue == /\ ~isInventoryFull(s1, w)
                              /\ ~treeDestroyed
                              /\ t # NoOne
                              /\ ~s1.tree[t].isDestroyed
            s2 == finishHarvesting(s1, w, shouldContinue)
        IN Observe(s2, [op |-> "harvestResult", who |-> w, t |-> t,
                        continues |-> shouldContinue,
                        heldBefore |-> (t # NoOne /\ s.tree[t].currentHarvester = w),
                        heldAfter |-> (t # NoOne /\ s2.tree[t].currentHarvester = w)])
        ) : s \in {world}} : TRUE

(* What a continuation can change of a worker: its state, its target and  *)
(* the reservations of the trees                                           *)
workerSnapshot(s, w) ==
    [state |-> s.wk[w].state, target |-> s.wk[w].targetResource,
     holders |-> [t \in Trees |-> s.tree[t].currentHarvester]]

(* A continuation of worker w has run.  It was scheduled while the worker  *)
(* was in one of the states scheduledIn; it is stale when the worker is in *)
(* none of them as it runs.                                                *)
continuationSeen(world, before, w, kind, scheduledIn) ==
    CHOOSE after \in {(
        Observe(s, [op |-> "continuation", who |-> w, kind |-> kind,
                    stale |-> before.wk[w].state \notin scheduledIn,
                    before |-> workerSnapshot(before, w),
                    after |-> workerSnapshot(s, w)])
        ) : s \in {world}} : TRUE

(* Microtasks run when the current handler has returned: the continuation  *)
(* of a settled workerHarvest promise is the caller's, a lumberjack of the *)
(* crew or a caller outside the scene                                      *)
RECURSIVE Drain(_)
Drain(world) ==
    CHOOSE after \in {(
        IF s.micro = <<>> THEN s
        ELSE LET m == Head(s.micro)
                 s1 == [s EXCEPT !.micro = Tail(@)]
             IN Drain(IF m.w \in s.scene.crew
                      THEN continuationSeen(handleHarvestResult(s1, m.w, m.r), s1, m.w,
                                            "harvest", {HARVESTING})
                      ELSE s1)
        ) : s \in {world}} : TRUE

---------------------------------------------------------------------------
(* Movement.  The map is reduced to three places; pos is the place the     *)
(* worker stands at (within the 20 px arrival distance of its target).     *)
(* A handler takes its inputs in the record in:                            *)
(*   sameTile  the worker stands on the very tile of the target            *)
(*   fails     how many of the handler's path requests find no path        *)
(*   explore   the place of the random target of exploreRandomly, which    *)
(*             lies within 100 px of the worker: the place it stands at    *)
(*   expired   the blacklist entries are older than blacklistDuration      *)
(*   trigger   Lumberjack.shouldTriggerIdleAction                          *)
(*   timedOut  the harvest has lasted longer than harvestTimeout           *)
(* EasyStar answers a request in a zero-delay timeout, which runs before   *)
(* the next frame: the answer is part of the action that asks.             *)

(* The places on the way from one place to another *)
RECURSIVE Steps(_, _)
Steps(from, to) ==
    IF from = to THEN <<>>
    ELSE LET next == IF from < to THEN from + 1 ELSE from - 1
         IN <<next>> \o Steps(next, to)

(* The path EasyStar returns: the start tile first, the target tile last.  *)
(* Within one place the two tiles differ (moveToTarget has checked it).    *)
TilePath(from, to) == IF from = to THEN <<from, to>> ELSE <<from>> \o Steps(from, to)

(* Worker.setPath: the first node is dropped when it is the current tile *)
setPath(world, w, path) ==
    CHOOSE after \in {(
        LET p == IF Len(path) > 0 /\ path[1] = s.wk[w].pos THEN Tail(path) ELSE path
        IN [s EXCEPT !.wk[w].path = p, !.wk[w].currentTargetIndex = 0]
        ) : s \in {world}} : TRUE

(* Lumberjack.depositResources: the deposit runs after a 1 s timer *)
depositResources(world, w) ==
    CHOOSE after \in {(
        Schedule(s, w, [k |-> "deposit"])
        ) : s \in {world}} : TRUE

(* Worker.handleResourceFailure *)
handleResourceFailure(world, w) ==
    CHOOSE after \in {(
        setState(releaseTarget(s, w), w, IDLE)
        ) : s \in {world}} : TRUE

handlePathfindingFailure_Forget(world, w) == world

(* Worker.handlePathfindingFailure *)
handlePathfindingFailure(world, w) ==
    CHOOSE after \in {(
        IF s.wk[w].state = MOVING_TO_RESOURCE /\ s.wk[w].targetResource # NoOne
        THEN releaseTarget([s EXCEPT !.wk[w].blacklistedTiles = @ \cup {s.wk[w].targetResource}],
                           w)
        ELSE s
        ) : s \in {world}} : TRUE

(* The onArrival closures of startResourceHarvesting, startStorageDeposit, *)
(* startDepositPointDeposit and exploreRandomly                            *)
onArrival(world, w, cb) ==
    CHOOSE after \in {(
        CASE cb = "harvest" -> harvestResource(setState(s, w, HARVESTING), w)
          [] cb \in {"store", "point"} -> depositResources(setState(s, w, DEPOSITING), w)
          [] OTHER -> setState(s, w, IDLE)
        ) : s \in {world}} : TRUE

(* Worker.handlePathfindingResult with waitForArrival: the answer to the   *)
(* nth path request of a handler                                           *)
handlePathfindingResult(world, w, dest, cb, in, nth) ==
    CHOOSE after \in {(
        IF nth <= in.fails
        THEN Observe(handlePathfindingFailure(s, w),
                     [op |-> "pathNull", who |-> w, from |-> s.wk[w].pos, dest |-> dest,
                      sameTile |-> in.sameTile])
        ELSE Schedule(setPath(s, w, TilePath(s.wk[w].pos, dest)), w,
                      [k |-> "poll", dest |-> dest, cb |-> cb])
        ) : s \in {world}} : TRUE

moveToTarget_NoShortcut(world, w, dest, cb, in, nth) ==
    handlePathfindingResult(world, w, dest, cb, in, nth)

(* Worker.moveToTarget up to its onFailure callback, which the caller     *)
(* applies to the result when pathRequestFails                             *)
moveToTarget(world, w, dest, cb, in, nth) ==
    CHOOSE after \in {(
        IF s.wk[w].pos = dest /\ in.sameTile
        THEN Observe(onArrival(s, w, cb),
                     [op |-> "arrivedAtOnce", who |-> w, dest |-> dest, cb |-> cb,
                      blocked |-> nth <= in.fails])
        ELSE handlePathfindingResult(s, w, dest, cb, in, nth)
        ) : s \in {world}} : TRUE

(* Worker.moveToTarget: the nth path request is made and is answered with *)
(* no path, so that onFailure is called                                    *)
pathRequestFails(s, w, dest, in, nth) ==
    /\ ~(s.wk[w].pos = dest /\ in.sameTile)
    /\ nth <= in.fails

(* What the worker has made of a path request that found no path: the     *)
(* worker and the tree it had as target, once the onFailure callback of    *)
(* the request has run                                                     *)
noPathSeen(world, before, w, kind) ==
    CHOOSE after \in {(
        LET t == before.wk[w].targetResource
        IN Observe(s, [op |-> "noPath", who |-> w, kind |-> kind, t |-> t,
                       held |-> (t # NoOne /\ before.tree[t].currentHarvester = w),
                       state |-> s.wk[w].state,
                       target |-> s.wk[w].targetResource,
                       storage |-> s.wk[w].targetStorage,
                       blacklist |-> s.wk[w].blacklistedTiles,
                       holder |-> IF t # NoOne THEN s.tree[t].currentHarvester ELSE NoOne])
        ) : s \in {world}} : TRUE

(* Worker.exploreRandomly: the worker's state is left as it is *)
exploreRandomly(world, w, in, nth) ==
    CHOOSE after \in {(
        IF pathRequestFails(s, w, in.explore, in, nth)
        THEN noPathSeen(Schedule(moveToTarget(s, w, in.explore, "explore", in, nth), w,
                                 [k |-> "idle"]),
                        s, w, "explore")
        ELSE moveToTarget(s, w, in.explore, "explore", in, nth)
        ) : s \in {world}} : TRUE

(* Worker.startDepositPointDeposit *)
startDepositPointDeposit(world, w, in, nth) ==
    CHOOSE after \in {(
        LET s1 == setState([s EXCEPT !.wk[w].targetStorage = NoOne], w, MOVING_TO_STORAGE)
        IN IF pathRequestFails(s1, w, DepositTile, in, nth)
           THEN noPathSeen(exploreRandomly(moveToTarget(s1, w, DepositTile, "point", in, nth),
                                           w, in, nth + 1),
                           s1, w, "point")
           ELSE moveToTarget(s1, w, DepositTile, "point", in, nth)
        ) : s \in {world}} : TRUE

(* Worker.handleStorageFailure *)
handleStorageFailure(world, w, in, nth) ==
    CHOOSE after \in {(
        IF s.scene.depositPoint THEN startDepositPointDeposit(s, w, in, nth)
        ELSE exploreRandomly(s, w, in, nth)
        ) : s \in {world}} : TRUE

(* Worker.startStorageDeposit *)
startStorageDeposit(world, w, in) ==
    CHOOSE after \in {(
        LET s1 == setState([s EXCEPT !.wk[w].targetStorage = "sawmill"], w, MOVING_TO_STORAGE)
        IN IF pathRequestFails(s1, w, StoreTile, in, 1)
           THEN noPathSeen(handleStorageFailure(moveToTarget(s1, w, StoreTile, "store", in, 1),
                                                w, in, 2),
                           s1, w, "sawmill")
           ELSE moveToTarget(s1, w, StoreTile, "store", in, 1)
        ) : s \in {world}} : TRUE

(* Worker.startResourceHarvesting *)
startResourceHarvesting(world, w, t, in) ==
    CHOOSE after \in {(
        LET s1 == setState([s EXCEPT !.wk[w].targetResource = t], w, MOVING_TO_RESOURCE)
        IN IF pathRequestFails(s1, w, TreeTile, in, 1)
           THEN noPathSeen(handleResourceFailure(moveToTarget(s1, w, TreeTile, "harvest", in, 1),
                                                 w),
                           s1, w, "tree")
           ELSE moveToTarget(s1, w, TreeTile, "harvest", in, 1)
        ) : s \in {world}} : TRUE

(* The state in which moveToTarget was called with the callback cb *)
scheduledIn(cb) ==
    CASE cb = "harvest" -> {MOVING_TO_RESOURCE}
      [] cb \in {"store", "point"} -> {MOVING_TO_STORAGE}
      [] OTHER -> WorkerState

(* Worker.waitForArrival: the condition its 100 ms poll waits for *)
arrived(s, w, c) ==
    \/ s.wk[w].pos = c.dest
    \/ (Len(s.wk[w].path) > 0 /\ s.wk[w].currentTargetIndex >= Len(s.wk[w].path))

updateMovement_KeepPath(world, w) ==
    CHOOSE after \in {(
        LET me == s.wk[w]
        IN IF Len(me.path) = 0 \/ me.currentTargetIndex >= Len(me.path)
           THEN [s EXCEPT !.wk[w].velocity = 0]
           ELSE IF me.pos = me.path[me.currentTargetIndex + 1]
           THEN [s EXCEPT !.wk[w].currentTargetIndex = @ + 1]
           ELSE [s EXCEPT !.wk[w].pos = me.path[me.currentTargetIndex + 1],
                          !.wk[w].velocity = 1]
        ) : s \in {world}} : TRUE

(* Worker.updateMovement with moveToNextPathNode, moveTowardsTarget and    *)
(* stopMovement; currentTargetIndex counts from 0; velocity is 0 when the  *)
(* body's velocity is (0, 0) and 1 when moveTowardsTarget has set it       *)
updateMovement(world, w) ==
    CHOOSE after \in {(
        LET me == s.wk[w]
        IN IF Len(me.path) = 0 \/ me.currentTargetIndex >= Len(me.path)
           THEN [s EXCEPT !.wk[w].velocity = 0]
           ELSE IF me.pos = me.path[me.currentTargetIndex + 1]
           THEN IF me.currentTargetIndex + 1 >= Len(me.path)
                THEN [s EXCEPT !.wk[w].currentTargetIndex = @ + 1, !.wk[w].path = <<>>,
                               !.wk[w].velocity = 0]
                ELSE [s EXCEPT !.wk[w].currentTargetIndex = @ + 1]
           ELSE [s EXCEPT !.wk[w].pos = me.path[me.currentTargetIndex + 1],
                          !.wk[w].velocity = 1]
        ) : s \in {world}} : TRUE

---------------------------------------------------------------------------
(* The worker's behaviour loop *)

(* Worker.cleanupBlacklist *)
cleanupBlacklist(world, w, in) ==
    CHOOSE after \in {(
        IF in.expired THEN [s EXCEPT !.wk[w].blacklistedTiles = {}] ELSE s
        ) : s \in {world}} : TRUE

(* Worker.handlePathfindingFailure: blacklistedTiles.set(tileKey, now) *)
blacklistTile(world, w, t) ==
    CHOOSE after \in {(
        [s EXCEPT !.clock.tiles[w] = (t :> s.clock.now) @@ @]
        ) : s \in {world}} : TRUE

(* Worker.cleanupBlacklist with its time stamps: an entry is deleted when  *)
(* now - timestamp > blacklistDuration                                     *)
cleanupBlacklistTimed(world, w) ==
    CHOOSE after \in {(
        LET m == s.clock.tiles[w]
            kept == {k \in DOMAIN m : ~(s.clock.now - m[k] > BlacklistDuration)}
        IN [s EXCEPT !.clock.tiles[w] = [k \in kept |-> m[k]]]
        ) : s \in {world}} : TRUE

(* Lumberjack.getAvailableTrees over the time-stamped blacklist *)
getAvailableTreesTimed(s, w) ==
    {t \in Trees : t \notin DOMAIN s.clock.tiles[w] /\ isAvailableForHarvest(s, t, w)}

(* Worker.blacklistTarget of the second worker implementation *)
blacklistTarget(world, w, t) ==
    CHOOSE after \in {(
        [s EXCEPT !.clock.targets[w] = @ \cup {t},
                  !.clock.since[w] = (t :> s.clock.now) @@ @]
        ) : s \in {world}} : TRUE

(* Worker.cleanupBlacklistPeriodically of the second worker implementation *)
cleanupBlacklistPeriodically(world, w) ==
    CHOOSE after \in {(
        IF s.clock.now - s.clock.lastBlacklistCleanup[w] > BlacklistDuration
        THEN [s EXCEPT !.clock.targets[w] = {},
                       !.clock.since[w] = <<>>,
                       !.clock.lastBlacklistCleanup[w] = s.clock.now]
        ELSE s
        ) : s \in {world}} : TRUE

(* isValidHarvestTarget of the second worker implementation *)
isValidHarvestTarget(s, w, t) ==
    t \notin s.clock.targets[w] /\ isAvailableForHarvest(s, t, w)

(* Phaser.Math.Distance.Between of the lumberjack and tree t, on the line  *)
distanceTo(f, t) == IF f.x >= ForestAt[t] THEN f.x - ForestAt[t] ELSE ForestAt[t] - f.x

(* The filter of getAvailableTrees and of expandSearchRadius: the trees of *)
(* mainScene.trees, in their order, that are not blacklisted, available    *)
(* for w and no further than radius2 / 2                                   *)
treesWithin(f, w, radius2) ==
    SelectSeq(ForestOrder, LAMBDA t :
        /\ t \notin f.blacklistedTiles
        /\ isAvailableForHarvest(f, t, w)
        /\ 2 * distanceTo(f, t) <= radius2)

(* Array.sort by distA - distB: ascending distance, trees at the same      *)
(* distance keep their order                                               *)
RECURSIVE sortByDistance(_, _)
sortByDistance(f, trees) ==
    IF trees = <<>> THEN <<>>
    ELSE LET i == CHOOSE k \in 1 .. Len(trees) :
                    \A j \in 1 .. Len(trees) :
                        \/ distanceTo(f, trees[k]) < distanceTo(f, trees[j])
                        \/ distanceTo(f, trees[k]) = distanceTo(f, trees[j]) /\ k <= j
         IN <<trees[i]>> \o sortByDistance(f, SubSeq(trees, 1, i - 1) \o
                                               SubSeq(trees, i + 1, Len(trees)))

(* The loop of selectOptimalTree from candidate i on: setHarvester on each *)
(* candidate until one accepts; tried lists the trees it asked             *)
RECURSIVE tryCandidates(_, _, _, _, _)
tryCandidates(f, w, sorted, i, tried) ==
    IF i > Min(MaxCandidates, Len(sorted))
    THEN [forest |-> [f EXCEPT !.ret = NoOne], tried |-> tried]
    ELSE LET f1 == setHarvester([tree |-> f.tree, obs |-> {}], sorted[i], w)
             ok == setHarvesterResult(f, sorted[i], w)
             f2 == [f EXCEPT !.tree = f1.tree]
         IN IF ok THEN [forest |-> [f2 EXCEPT !.ret = sorted[i]],
                        tried |-> Append(tried, sorted[i])]
            ELSE tryCandidates(f2, w, sorted, i + 1, Append(tried, sorted[i]))

selectOptimalTreeOf_Farthest(f, w, trees) ==
    LET asc == sortByDistance(f, trees)
    IN tryCandidates(f, w, [i \in 1 .. Len(asc) |-> asc[Len(asc) + 1 - i]], 1, <<>>)

(* Lumberjack.selectOptimalTree over several trees *)
selectOptimalTreeOf(f, w, trees) == tryCandidates(f, w, sortByDistance(f, trees), 1, <<>>)

(* Lumberjack.expandSearchRadius *)
expandSearchRadius(f, w) ==
    LET extendedTrees == treesWithin(f, w, 3 * WorkRadius)
    IN IF Len(extendedTrees) > 0 THEN selectOptimalTreeOf(f, w, extendedTrees)
       ELSE [forest |-> [f EXCEPT !.ret = NoOne], tried |-> <<>>]

(* Lumberjack.findNearestResource over several trees (the blacklist is     *)
(* cleaned by ForestCleanup)                                               *)
findNearestResourceIn(f, w) ==
    LET availableTrees == treesWithin(f, w, 2 * WorkRadius)
    IN IF Len(availableTrees) = 0 THEN expandSearchRadius(f, w)
       ELSE selectOptimalTreeOf(f, w, availableTrees)

(* Lumberjack.getAvailableTrees: the trees it asks isAvailableForHarvest;  *)
(* every tree lies within the work radius                                  *)
askedTrees(s, w) == {t \in Trees : t \notin s.wk[w].blacklistedTiles}

getAvailableTrees(s, w) == {t \in askedTrees(s, w) : isAvailableForHarvest(s, t, w)}

(* Lumberjack.selectOptimalTree: the candidates are asked in order of      *)
(* distance; with one tree there is one order                              *)
selectOptimalTree(world, w, trees) ==
    CHOOSE after \in {(
        LET t == CHOOSE x \in trees : TRUE
            s1 == setHarvester(s, t, w)
        IN [world |-> s1, tree |-> IF s1.tree[t].currentHarvester = w THEN t ELSE NoOne]
        ) : s \in {world}} : TRUE

(* Lumberjack.findNearestResource with expandSearchRadius *)
findNearestResource(world, w, in) ==
    CHOOSE after \in {(
        LET s1 == cleanupBlacklist(s, w, in)
            available == getAvailableTrees(s1, w)
            s2 == [s1 EXCEPT !.obs = @ \cup
                      {[op |-> "available", t |-> t, who |-> w, ret |-> (t \in available),
                        pre |-> s1.tree[t]] : t \in askedTrees(s1, w)}]
        IN IF available = {} THEN [world |-> s2, tree |-> NoOne]
           ELSE selectOptimalTree(s2, w, available)
        ) : s \in {world}} : TRUE

(* Lumberjack.findNearestStorage *)
findNearestStorage(s, w) == IF s.scene.sawmill THEN "sawmill" ELSE NoOne

(* Worker.handleFullInventory *)
handleFullInventory(world, w, in) ==
    CHOOSE after \in {(
        IF findNearestStorage(s, w) # NoOne THEN startStorageDeposit(s, w, in)
        ELSE IF s.scene.depositPoint THEN startDepositPointDeposit(s, w, in, 1)
        ELSE exploreRandomly(s, w, in, 1)
        ) : s \in {world}} : TRUE

(* Worker.handleEmptyInventory *)
handleEmptyInventory(world, w, in) ==
    CHOOSE after \in {(
        LET r == findNearestResource(s, w, in)
        IN IF r.tree # NoOne THEN startResourceHarvesting(r.world, w, r.tree, in)
           ELSE exploreRandomly(r.world, w, in, 1)
        ) : s \in {world}} : TRUE

(* Worker.updateIdle *)
updateIdle(world, w, in) ==
    CHOOSE after \in {(
        LET s1 == cleanupBlacklist(s, w, in)
        IN IF isInventoryFull(s1, w) THEN handleFullInventory(s1, w, in)
           ELSE handleEmptyInventory(s1, w, in)
        ) : s \in {world}} : TRUE

addResourceToBuilding_Unclamped(stored, amount) == amount

(* TiledBuilding.addResourceToBuilding: the amount accepted *)
addResourceToBuilding(stored, amount) == Min(amount, Capacity - stored)

removeResourceFromBuilding_Unclamped(stored, amount) == amount

(* TiledBuilding.removeResourceFromBuilding: the amount handed out *)
removeResourceFromBuilding(stored, amount) == Min(amount, stored)

depositToBuilding_DropsExcess(world, w, woodAmount) ==
    CHOOSE after \in {(
        LET deposited == addResourceToBuilding(s.stock, woodAmount)
            s1 == [s EXCEPT !.stock = @ + deposited,
                            !.wk[w].wood = @ - removeFromInventory(s, w, woodAmount),
                            !.wk[w].targetStorage = NoOne]
        IN Observe(s1, [op |-> "deposit", who |-> w, to |-> "sawmill", amount |-> woodAmount,
                        returned |-> deposited, before |-> s.stock, after |-> s1.stock])
        ) : s \in {world}} : TRUE

(* Lumberjack.depositToBuilding *)
depositToBuilding(world, w, woodAmount) ==
    CHOOSE after \in {(
        LET deposited == addResourceToBuilding(s.stock, woodAmount)
            s1 == [s EXCEPT !.stock = @ + deposited,
                            !.wk[w].wood = @ - removeFromInventory(s, w, deposited),
                            !.wk[w].targetStorage = NoOne]
        IN Observe(s1, [op |-> "deposit", who |-> w, to |-> "sawmill", amount |-> woodAmount,
                        returned |-> deposited, before |-> s.stock, after |-> s1.stock])
        ) : s \in {world}} : TRUE

depositToPoint_KeepsWood(world, w, woodAmount) ==
    CHOOSE after \in {(
        Observe(s,
                [op |-> "deposit", who |-> w, to |-> "point", amount |-> woodAmount,
                 returned |-> woodAmount, before |-> 0, after |-> 0])
        ) : s \in {world}} : TRUE

(* Lumberjack.depositToPoint: the wood goes to the player's stock *)
depositToPoint(world, w, woodAmount) ==
    CHOOSE after \in {(
        Observe([s EXCEPT !.wk[w].wood = @ - removeFromInventory(s, w, woodAmount)],
                [op |-> "deposit", who |-> w, to |-> "point", amount |-> woodAmount,
                 returned |-> woodAmount, before |-> 0, after |-> 0])
        ) : s \in {world}} : TRUE

(* Lumberjack.isAtDepositPoint *)
isAtDepositPoint(s, w) == s.scene.depositPoint /\ s.wk[w].pos = DepositTile

(* Lumberjack.processDeposit *)
processDeposit(world, w) ==
    CHOOSE after \in {(
        LET woodAmount == s.wk[w].wood
        IN IF woodAmount <= 0 THEN s
           ELSE IF s.wk[w].targetStorage # NoOne THEN depositToBuilding(s, w, woodAmount)
           ELSE IF isAtDepositPoint(s, w) THEN depositToPoint(s, w, woodAmount)
           ELSE s
        ) : s \in {world}} : TRUE

(* Lumberjack.depositResources: the callback of its timer *)
depositCallback(world, w) ==
    CHOOSE after \in {(
        setState(processDeposit(s, w), w, IDLE)
        ) : s \in {world}} : TRUE

(* Lumberjack.handleStuckState *)
handleStuckState(world, w) ==
    CHOOSE after \in {(
        setState(cleanupHarvesting(s, w), w, IDLE)
        ) : s \in {world}} : TRUE

(* Worker.update *)
workerUpdate(world, w, in) ==
    CHOOSE after \in {(
        CASE s.wk[w].state = IDLE -> updateIdle(s, w, in)
          [] s.wk[w].state \in {MOVING_TO_RESOURCE, MOVING_TO_STORAGE} -> updateMovement(s, w)
          [] OTHER -> [s EXCEPT !.wk[w].velocity = 0]
        ) : s \in {world}} : TRUE

(* Lumberjack.update *)
lumberjackUpdate(world, w, in) ==
    CHOOSE after \in {(
        IF s.wk[w].inProgress /\ in.timedOut
        THEN Observe(handleStuckState(s, w),
                     [op |-> "stuck", who |-> w, pre |-> s.wk[w],
                      held |-> {t \in Trees : s.tree[t].currentHarvester = w}])
        ELSE LET s1 == IF s.wk[w].state = IDLE /\ in.trigger THEN updateIdle(s, w, in) ELSE s
                 s2 == IF s1.wk[w].state = HARVESTING /\ ~s1.wk[w].inProgress
                       THEN harvestResource(s1, w) ELSE s1
             IN workerUpdate(s2, w, in)
        ) : s \in {world}} : TRUE

---------------------------------------------------------------------------
(* WorkerManager *)

(* WorkerManager.checkStuckWorkers, for one worker *)
checkStuckWorker(world, w) ==
    CHOOSE after \in {(
        LET last == s.mgr[w]
        IN IF ~last.seen
           THEN [s EXCEPT !.mgr[w] = [seen |-> TRUE, pos |-> s.wk[w].pos, unchangedCount |-> 0]]
           ELSE IF last.pos = s.wk[w].pos
           THEN IF last.unchangedCount + 1 >= MaxUnchangedCount
                THEN LET s1 == setState(workerCleanup(s, w), w, IDLE)
                     IN Observe([s1 EXCEPT !.mgr[w].unchangedCount = 0],
                                [op |-> "forcedReset", who |-> w, from |-> s.wk[w].state,
                                 held |-> \E t \in Trees : s.tree[t].currentHarvester = w])
                ELSE [s EXCEPT !.mgr[w].unchangedCount = @ + 1]
           ELSE [s EXCEPT !.mgr[w].pos = s.wk[w].pos, !.mgr[w].unchangedCount = 0]
        ) : s \in {world}} : TRUE

(* Lumberjack.destroy: cleanupHarvesting, the deposit timer is destroyed,  *)
(* then Worker.destroy: cleanup, and the sprite is destroyed (active is    *)
(* false from then on).  The arrival polls and delayed calls of the worker *)
(* are not cancelled.                                                      *)
lumberjackDestroy(world, w) ==
    CHOOSE after \in {(
        LET s1 == cleanupHarvesting(s, w)
            s2 == IF [k |-> "deposit"] \in BagToSet(s1.pend[w])
                  THEN Unschedule(s1, w, [k |-> "deposit"]) ELSE s1
        IN [workerCleanup(s2, w) EXCEPT !.wk[w].active = FALSE]
        ) : s \in {world}} : TRUE

removeWorker_KeepsSprite(world, w) ==
    CHOOSE after \in {(
        IF w \notin s.scene.crew THEN s
        ELSE Observe([s EXCEPT !.scene.crew = @ \ {w}, !.wk[w].active = FALSE],
                     [op |-> "removed", who |-> w, pre |-> s.wk[w],
                      held |-> {t \in Trees : s.tree[t].currentHarvester = w}])
        ) : s \in {world}} : TRUE

(* WorkerManager.removeWorker: the worker leaves WorkerManager.workers and *)
(* is destroyed                                                            *)
removeWorker(world, w) ==
    CHOOSE after \in {(
        IF w \notin s.scene.crew THEN s
        ELSE Observe(lumberjackDestroy([s EXCEPT !.scene.crew = @ \ {w}], w),
                     [op |-> "removed", who |-> w, pre |-> s.wk[w],
                      held |-> {t \in Trees : s.tree[t].currentHarvester = w}])
        ) : s \in {world}} : TRUE

(* The workers in the order of WorkerManager.workers, the order in which   *)
(* they were created. The lumberjacks start alike, so the other order is   *)
(* the same scene with the two names exchanged                             *)
WorkerOrder == <<"w1", "w2">>

crewOrder(s) == SelectSeq(WorkerOrder, LAMBDA w : w \in s.scene.crew)

RECURSIVE checkStuckFrom(_, _)
checkStuckFrom(world, ws) ==
    CHOOSE after \in {(
        IF ws = <<>> THEN s ELSE checkStuckFrom(checkStuckWorker(s, Head(ws)), Tail(ws))
        ) : s \in {world}} : TRUE

(* WorkerManager.checkStuckWorkers *)
checkStuckWorkers(world) ==
    CHOOSE after \in {(
        checkStuckFrom(s, crewOrder(s))
        ) : s \in {world}} : TRUE

(* MainScene.update, the trees' part *)
RECURSIVE treesUpdate(_, _, _)
treesUpdate(world, ts, overlapping) ==
    CHOOSE after \in {(
        IF ts = {} THEN s
        ELSE LET t == CHOOSE x \in ts : TRUE
             IN treesUpdate(treeUpdate(s, t, overlapping[t]), ts \ {t}, overlapping)
        ) : s \in {world}} : TRUE

---------------------------------------------------------------------------
(* The inputs of one scene tick *)

(* The harvest timeout (10 s) cannot pass before the hit's fallback (2 s) *)
canTimeOut(s, w) ==
    /\ s.wk[w].inProgress
    /\ \A h \in BagToSet(s.hits) : h.w = w => ~h.fallback

(* Worker w may reach updateIdle in this tick *)
mayIdle(s, w) ==
    s.wk[w].state = IDLE \/ (s.wk[w].state = HARVESTING /\ ~s.wk[w].inProgress)

NoInputs == [sameTile |-> TRUE, fails |-> 0, explore |-> DepositTile, expired |-> FALSE,
             trigger |-> FALSE, timedOut |-> FALSE]

WorkerInputs(s, w) ==
    [sameTile : IF mayIdle(s, w) THEN BOOLEAN ELSE {TRUE},
     fails    : IF mayIdle(s, w) /\ ~s.scene.open THEN 0..MaxFails ELSE {0},
     explore  : {s.wk[w].pos},
     expired  : IF mayIdle(s, w) /\ s.wk[w].blacklistedTiles # {} THEN BOOLEAN ELSE {FALSE},
     trigger  : IF s.wk[w].state = IDLE THEN BOOLEAN ELSE {FALSE},
     timedOut : IF canTimeOut(s, w) THEN BOOLEAN ELSE {FALSE}]

TreeInputs(t) == IF tree[t].isBeingHit /\ ~tree[t].isDestroyed THEN BOOLEAN ELSE {TRUE}

(* WorkerManager.updateWorkers: worker.update() of one worker of the crew *)
updateWorker(world, w, in) ==
    CHOOSE after \in {(
        IF w \in s.scene.crew THEN lumberjackUpdate(s, w, in) ELSE s
        ) : s \in {world}} : TRUE

InputsOf(s, w) == IF w \in s.scene.crew THEN WorkerInputs(s, w) ELSE {NoInputs}

---------------------------------------------------------------------------
(* Actions: one per handler the scene's event loop runs *)

(* MainScene.update, one frame: the trees, then the workers in the order   *)
(* of WorkerManager.workers                                                *)
Tick ==
    \E overlapping \in [Trees -> BOOLEAN] :
        /\ \A t \in Trees : overlapping[t] \in TreeInputs(t)
        /\ \E s0 \in {treesUpdate(World, Trees, overlapping)} :
              \E in1 \in InputsOf(s0, "w1") :
                 \E s1 \in {updateWorker(s0, "w1", in1)} :
                    \E in2 \in InputsOf(s1, "w2") :
                       Install(Drain(updateWorker(s1, "w2", in2)))

(* MainScene.update, one frame in which the update of worker thrower       *)
(* raises an exception at its first statement.  WorkerManager.updateWorkers *)
(* calls worker.update() in a forEach without a try: the exception ends    *)
(* the forEach, the workers after the thrower are not updated, and the     *)
(* exception leaves updateWorkers and MainScene.update.                    *)
TickThrows(thrower) ==
    /\ thrower \in scene.crew
    /\ \E overlapping \in [Trees -> BOOLEAN] :
          /\ \A t \in Trees : overlapping[t] \in TreeInputs(t)
          /\ \E s0 \in {treesUpdate(World, Trees, overlapping)} :
                IF thrower = WorkerOrder[1]
                THEN Install(Observe(s0, [op |-> "exception", who |-> thrower,
                                          propagated |-> TRUE,
                                          skipped |-> s0.scene.crew \ {thrower}]))
                ELSE \E in1 \in InputsOf(s0, WorkerOrder[1]) :
                        Install(Drain(Observe(updateWorker(s0, WorkerOrder[1], in1),
                                              [op |-> "exception", who |-> thrower,
                                               propagated |-> TRUE, skipped |-> {}])))

(* Tree.handlePointerDown: the player clicks the tree; the path to it is   *)
(* found and waitForPlayerArrival starts polling                           *)
PlayerClick(t) ==
    /\ scene.player
    /\ ~tree[t].isDestroyed /\ ~tree[t].isBeingHit
    /\ watch[t] < MaxWatch
    /\ Install([World EXCEPT !.watch[t] = @ + 1])

(* waitForPlayerArrival: the poll that sees the player arrived and still *)
PlayerArrive(t) ==
    /\ watch[t] > 0
    /\ \E moving \in BOOLEAN :
          LET s1 == [World EXCEPT !.watch[t] = @ - 1]
          IN Install(IF s1.tree[t].isDestroyed THEN s1
                     ELSE startAutoHitSequence(s1, t, moving))

(* performHit settles: a suspended startAutoHitSequence goes on *)
SeqResume(t) ==
    /\ seqs[t] > 0
    /\ \E moving \in BOOLEAN : Install(autoHitResume(World, t, moving))

(* The healing timer fires *)
HealingFire(t) ==
    /\ tree[t].healingTimer
    /\ Install(healingCallback(World, t))

(* A respawn timer fires.  It runs for respawnTime (60 s): the callbacks   *)
(* of the hits taken before the destruction (2 s at most) have run.        *)
Respawn(t) ==
    /\ tree[t].respawnTimers > 0
    /\ hits = EmptyBag
    /\ Install(respawn(World, t))

(* workerHarvest: the hit animation of a pending hit ends *)
HitAnimationDone ==
    \E h \in BagToSet(hits) :
        /\ h.anim
        /\ Install(Drain(hitAnimationDone(World, h)))

(* workerHarvest: the fallback timer of a pending hit fires *)
HitFallback ==
    \E h \in BagToSet(hits) :
        /\ h.fallback
        /\ Install(Drain(hitFallback(World, h)))

(* waitForArrival: the poll that sees the worker arrived; onArrival is     *)
(* scheduled 300 ms later                                                  *)
Poll(w) ==
    \E c \in BagToSet(pend[w]) :
        /\ c.k = "poll"
        /\ arrived(World, w, c)
        /\ Install(Schedule(Unschedule([World EXCEPT !.wk[w].velocity = 0], w, c), w,
                            [k |-> "arrive", cb |-> c.cb]))

(* waitForArrival: the delayed onArrival *)
Arrive(w) ==
    \E c \in BagToSet(pend[w]) :
        /\ c.k = "arrive"
        /\ Install(Drain(continuationSeen(onArrival(Unschedule(World, w, c), w, c.cb),
                                          World, w, "arrival", scheduledIn(c.cb))))

(* exploreRandomly: the delayed setState(IDLE) after a failure *)
IdleTimer(w) ==
    /\ [k |-> "idle"] \in BagToSet(pend[w])
    /\ Install(setState(Unschedule(World, w, [k |-> "idle"]), w, IDLE))

(* depositResources: the deposit timer fires *)
DepositTimer(w) ==
    /\ [k |-> "deposit"] \in BagToSet(pend[w])
    /\ Install(continuationSeen(depositCallback(Unschedule(World, w, [k |-> "deposit"]), w),
                                World, w, "deposit", {DEPOSITING}))

(* finishHarvesting: the delayed inProgress = false *)
Unlock(w) ==
    /\ [k |-> "unlock"] \in BagToSet(pend[w])
    /\ Install([Unschedule(World, w, [k |-> "unlock"]) EXCEPT !.wk[w].inProgress = FALSE])

(* Time passes *)
Advance ==
    /\ clock.now < MaxNow
    /\ Install([World EXCEPT !.clock.now = @ + 1])

(* A path request of lumberjack w to tree t finds no path *)
BlacklistTile(w, t) ==
    /\ w \in Workers
    /\ Install(blacklistTile(World, w, t))

(* Lumberjack.findNearestResource: cleanupBlacklist, then getAvailableTrees *)
FindNearestTimed(w) ==
    /\ w \in Workers
    /\ \E s1 \in {cleanupBlacklistTimed(World, w)} :
          Install([s1 EXCEPT !.obs =
                      {[op |-> "listed", by |-> "cleanupBlacklist", who |-> w, t |-> t,
                        stamp |-> clock.tiles[w][t], now |-> clock.now,
                        ret |-> t \in getAvailableTreesTimed(s1, w)] :
                       t \in DOMAIN clock.tiles[w]}])

(* The second worker implementation blacklists the target of a failed     *)
(* hit; a hit is reached from updateWorker only, so the first update has   *)
(* run                                                                     *)
BlacklistTarget(w, t) ==
    /\ clock.lastBlacklistCleanup[w] > 0
    /\ Install(blacklistTarget(World, w, t))

(* updateWorker of the second worker implementation, once a second:       *)
(* cleanupBlacklistPeriodically, then the targets are validated            *)
UpdateWorkerSecond(w) ==
    /\ w \in Workers
    /\ \E s1 \in {cleanupBlacklistPeriodically(World, w)} :
          Install([s1 EXCEPT !.obs =
                      {[op |-> "listed", by |-> "cleanupBlacklistPeriodically", who |-> w,
                        t |-> t, stamp |-> clock.since[w][t], now |-> clock.now,
                        ret |-> isValidHarvestTarget(s1, w, t)] :
                       t \in clock.targets[w]}])

(* The lumberjack has walked to x *)
ForestWalk(x) ==
    /\ x # forest.x
    /\ Install([World EXCEPT !.forest.x = x])

(* handlePathfindingFailure: the tile of tree t is blacklisted *)
ForestBlacklist(t) ==
    /\ t \notin forest.blacklistedTiles
    /\ Install([World EXCEPT !.forest.blacklistedTiles = @ \cup {t}])

(* cleanupBlacklist once the entries have expired *)
ForestCleanup ==
    /\ forest.blacklistedTiles # {}
    /\ Install([World EXCEPT !.forest.blacklistedTiles = {}])

(* Another worker reserves tree t *)
ForestOtherSets(t, w) ==
    /\ setHarvesterResult(forest, t, w)
    /\ forest.tree[t].currentHarvester # w
    /\ Install([World EXCEPT !.forest.tree[t].currentHarvester = w])

(* releaseHarvester of tree t by whoever holds it *)
ForestRelease(t) ==
    /\ forest.tree[t].currentHarvester # NoOne
    /\ Install([World EXCEPT !.forest.tree[t].currentHarvester = NoOne])

(* Lumberjack w looks for a tree: findNearestResource *)
ForestFind(w) ==
    /\ w \in Workers
    /\ \E r \in {findNearestResourceIn(forest, w)} :
          Install([World EXCEPT !.forest = r.forest,
                                !.obs = {[op |-> "selected", who |-> w, ret |-> r.forest.ret,
                                          tried |-> r.tried, pre |-> forest]}])

(* The game removes worker w: WorkerManager.removeWorker *)
RemoveWorker(w) ==
    /\ w \in scene.crew
    /\ Install(removeWorker(World, w))

(* WorkerManager: the 5 s stuck-check timer fires *)
CheckStuckWorkers ==
    /\ scene.crew # {}
    /\ Install(Observe(checkStuckWorkers(World), [op |-> "stuckCheck"]))

(* MainScene.placeBuilding: the player clicks to place the previewed       *)
(* building b                                                              *)
PlaceBuilding(b) ==
    /\ b.type \in BuildingTypes
    /\ Install(placeBuilding(World, b))

(* The clearBuildings event of the game: BuildingManager.clearAll.  With   *)
(* no building placed it leaves every variable as it is.                   *)
ClearBuildings ==
    /\ buildings # <<>>
    /\ Install(clearAll(World))

(* The clearBuildings event handled by the second BuildingManager *)
ClearBuildingsSecond ==
    /\ buildings # <<>>
    /\ Install(clearAllSecond(World))

(* MainScene.rebuildPathfindingGrid called with the buildings and trees as *)
(* they are, as a tree does when it is felled or respawns (its stump       *)
(* blocks the tile as the tree did)                                        *)
RebuildPathfindingGrid ==
    /\ Trees # {}
    /\ Install(Observe(rebuildPathfindingGrid(World),
                       [op |-> "rebuild", before |-> grid,
                        again |-> \E o \in obs : o.op = "rebuild"]))

(* TiledBuilding.addResourceToBuilding called on the sawmill *)
CallAddResourceToBuilding(amount) ==
    /\ amount >= 0
    /\ LET returned == addResourceToBuilding(stock, amount)
       IN Install(Observe([World EXCEPT !.stock = @ + returned],
                          [op |-> "addResource", amount |-> amount, returned |-> returned,
                           before |-> stock, after |-> stock + returned]))

(* TiledBuilding.removeResourceFromBuilding called on the sawmill *)
CallRemoveResourceFromBuilding(amount) ==
    /\ amount >= 0
    /\ LET returned == removeResourceFromBuilding(stock, amount)
       IN Install(Observe([World EXCEPT !.stock = @ - returned],
                          [op |-> "removeResource", amount |-> amount,
                           returned |-> returned, before |-> stock,
                           after |-> stock - returned]))

(* Worker.addToInventory called on worker w *)
CallAddToInventory(w, amount) ==
    /\ amount >= 0
    /\ LET canAdd == addToInventory(World, w, amount)
           s1 == IF canAdd > 0 THEN [World EXCEPT !.wk[w].wood = @ + canAdd] ELSE World
       IN Install(Observe(s1, [op |-> "addToInventory", who |-> w, amount |-> amount,
                               returned |-> canAdd, before |-> wk[w].wood,
                               after |-> s1.wk[w].wood]))

(* Worker.removeFromInventory called on worker w *)
CallRemoveFromInventory(w, amount) ==
    /\ amount >= 0
    /\ LET canRemove == removeFromInventory(World, w, amount)
           s1 == IF canRemove > 0 THEN [World EXCEPT !.wk[w].wood = @ - canRemove] ELSE World
       IN Install(Observe(s1, [op |-> "removeFromInventory", who |-> w, amount |-> amount,
                               returned |-> canRemove, before |-> wk[w].wood,
                               after |-> s1.wk[w].wood]))

(* The public reservation interface of a tree, called by any requester *)
CallIsAvailableForHarvest(t, w) ==
    /\ t \in Trees
    /\ Install(Observe(World, [op |-> "available", t |-> t, who |-> w,
                               ret |-> isAvailableForHarvest(World, t, w),
                               pre |-> tree[t]]))

CallSetHarvester(t, w) ==
    /\ t \in Trees
    /\ Install(setHarvester(World, t, w))

(* Lumberjack.findNearestResource of a lumberjack w whose other steps are  *)
(* not followed: it has no target, finds the tree among getAvailableTrees  *)
(* and reserves it in selectOptimalTree                                    *)
OtherSelects(t, w) ==
    /\ w \notin scene.crew
    /\ isAvailableForHarvest(World, t, w)
    /\ tree[t].currentHarvester = NoOne
    /\ Install(setHarvester(World, t, w))

CallReleaseHarvester(t) ==
    /\ t \in Trees
    /\ Install(Observe(releaseHarvester(World, t),
                       [op |-> "release", t |-> t, who |-> NoOne, pre |-> tree[t]]))

CallWorkerHarvest(t, w) ==
    /\ t \in Trees
    /\ Install(Drain(workerHarvest(World, t, w)))

---------------------------------------------------------------------------
(* The game scene with its workers, one tree and the player *)

NewManager == [w \in Workers |-> [seen |-> FALSE, pos |-> DepositTile, unchangedCount |-> 0]]

(* MainScene.create: the buildings of the session storage are loaded      *)
(* (BuildingManager.loadState), the base grid is computed from the map    *)
(* and the pathfinding grid is built                                       *)
createGrids(collides, stored) ==
    rebuildPathfindingGrid([baseGrid |-> computeBaseGrid(collides), buildings |-> stored,
                            grid |-> computeBaseGrid(collides)])

SceneInitLoaded(sc, stored, seen) ==
    /\ tree = [t \in Trees |-> NewTree]
    /\ seqs = [t \in Trees |-> 0]
    /\ watch = [t \in Trees |-> 0]
    /\ hits = EmptyBag
    /\ wk = [w \in Workers |-> NewWorker]
    /\ pend = [w \in Workers |-> EmptyBag]
    /\ mgr = NewManager
    /\ scene = sc
    /\ stock = 0
    /\ baseGrid = createGrids(sc.collides, stored).baseGrid
    /\ buildings = stored
    /\ grid = createGrids(sc.collides, stored).grid
    /\ clock = NewClock
    /\ forest = NewForest
    /\ obs = seen

SceneInitWith(sc, stored) == SceneInitLoaded(sc, stored, {})

SceneInit(sc) == SceneInitWith(sc, <<>>)

(* One lumberjack with its deposit point and one tree *)
Init ==
    SceneInit([sawmill |-> FALSE, depositPoint |-> TRUE, open |-> FALSE, player |-> FALSE,
               crew |-> {"w1"}, cap |-> MaxPending, collides |-> {}])

WorkerStep(w) ==
    \/ Poll(w)
    \/ Arrive(w)
    \/ IdleTimer(w)
    \/ DepositTimer(w)
    \/ Unlock(w)

Next ==
    \/ Tick
    \/ \E t \in Trees : Respawn(t)
    \/ HitAnimationDone
    \/ HitFallback
    \/ \E w \in Workers : WorkerStep(w)

Spec == Init /\ [][Next]_worldVars

(* The player and one tree, no worker *)
InitPlayer ==
    SceneInit([sawmill |-> FALSE, depositPoint |-> FALSE, open |-> TRUE, player |-> TRUE,
               crew |-> {}, cap |-> MaxPending, collides |-> {}])

NextPlayer ==
    \/ Tick
    \/ \E t \in Trees : PlayerClick(t)
    \/ \E t \in Trees : PlayerArrive(t)
    \/ \E t \in Trees : SeqResume(t)
    \/ \E t \in Trees : HealingFire(t)
    \/ \E t \in Trees : Respawn(t)

SpecPlayer == InitPlayer /\ [][NextPlayer]_worldVars

(* Two lumberjacks and one tree *)
InitPair ==
    SceneInit([sawmill |-> FALSE, depositPoint |-> FALSE, open |-> TRUE, player |-> FALSE,
               crew |-> {"w1", "w2"}, cap |-> MaxPendingCrowded,
               collides |-> {}])

NextPair ==
    \/ Tick
    \/ \E t \in Trees : Respawn(t)
    \/ HitAnimationDone
    \/ HitFallback
    \/ \E w \in Workers : Poll(w)
    \/ \E w \in Workers : Arrive(w)
    \/ \E w \in Workers : Unlock(w)
    \/ \E w \in Workers : TickThrows(w)

SpecPair == InitPair /\ [][NextPair]_worldVars

(* A lumberjack, the player and one tree, which the player fells while    *)
(* the lumberjack harvests it; a second lumberjack, of which only the      *)
(* reservation call of its selectOptimalTree is followed, wants the tree   *)
(* too. The scene is followed up to the moment the first two-second        *)
(* fallback of a lumberjack's hit falls due                                *)
InitCrowd ==
    SceneInit([sawmill |-> FALSE, depositPoint |-> FALSE, open |-> TRUE, player |-> TRUE,
               crew |-> {"w1"}, cap |-> MaxPendingCrowded,
               collides |-> {}])

NextCrowd ==
    \/ Tick
    \/ \E t \in Trees : Respawn(t)
    \/ HitAnimationDone
    \/ \E w \in Workers : Poll(w)
    \/ \E w \in Workers : Arrive(w)
    \/ \E w \in Workers : Unlock(w)
    \/ \E t \in Trees : PlayerClick(t)
    \/ \E t \in Trees : PlayerArrive(t)
    \/ \E t \in Trees : SeqResume(t)
    \/ \E t \in Trees : OtherSelects(t, "w2")

SpecCrowd == InitCrowd /\ [][NextCrowd]_worldVars

(* One lumberjack, one tree and the stuck check of the WorkerManager *)
InitStuck ==
    SceneInit([sawmill |-> FALSE, depositPoint |-> TRUE, open |-> FALSE, player |-> FALSE,
               crew |-> {"w1"}, cap |-> MaxPendingCrowded, collides |-> {}])

NextStuck ==
    \/ Next
    \/ CheckStuckWorkers

SpecStuck == InitStuck /\ [][NextStuck]_worldVars

(* One tree, the player, and callers of the tree's public interface *)
InitApi ==
    SceneInit([sawmill |-> FALSE, depositPoint |-> FALSE, open |-> TRUE, player |-> TRUE,
               crew |-> {}, cap |-> MaxPending, collides |-> {}])

NextApi ==
    \/ \E t \in Trees, w \in Workers : CallIsAvailableForHarvest(t, w)
    \/ \E t \in Trees, w \in Workers : CallSetHarvester(t, w)
    \/ \E t \in Trees : CallReleaseHarvester(t)
    \/ \E t \in Trees, w \in Workers : CallWorkerHarvest(t, w)
    \/ HitAnimationDone
    \/ HitFallback
    \/ NextPlayer

SpecApi == InitApi /\ [][NextApi]_worldVars

(* One lumberjack, its deposit point and one tree on open ground: every   *)
(* path request finds a path.  The frame loop keeps running and every     *)
(* timer or animation callback that is due runs.                          *)
InitLive ==
    SceneInit([sawmill |-> FALSE, depositPoint |-> TRUE, open |-> TRUE, player |-> FALSE,
               crew |-> {"w1"}, cap |-> MaxPending, collides |-> {}])

NextLive ==
    \/ Tick
    \/ \E t \in Trees : Respawn(t)
    \/ HitAnimationDone
    \/ HitFallback
    \/ \E w \in Workers : Poll(w)
    \/ \E w \in Workers : Arrive(w)
    \/ \E w \in Workers : DepositTimer(w)
    \/ \E w \in Workers : Unlock(w)

FairLive ==
    /\ WF_worldVars(Tick)
    /\ \A t \in Trees : WF_worldVars(Respawn(t))
    /\ WF_worldVars(HitAnimationDone)
    /\ WF_worldVars(HitFallback)
    /\ \A w \in Workers : /\ WF_worldVars(Poll(w))
                          /\ WF_worldVars(Arrive(w))
                          /\ WF_worldVars(DepositTimer(w))
                          /\ WF_worldVars(Unlock(w))

SpecLive == InitLive /\ [][NextLive]_worldVars /\ FairLive

(* The building system of the scene: a map with or without a colliding    *)
(* tile, with the buildings the session storage held when it was created  *)
MapCollisions == {{}, {<<2, 1>>}}

Placements == [type : BuildingTypes, x : 0 .. MapWidth - 1, y : 0 .. MapHeight - 1]

InitGrid ==
    \E collides \in MapCollisions :
        \E stored \in {<<>>} \cup {<<b>> : b \in Placements} :
            /\ \A i \in DOMAIN stored :
                  isValidPlacement([scene |-> [collides |-> collides]], stored[i])
            /\ SceneInitWith([sawmill |-> FALSE, depositPoint |-> FALSE, open |-> TRUE,
                              player |-> TRUE, crew |-> {}, cap |-> MaxPending,
                              collides |-> collides], stored)

NextGrid ==
    \/ \E b \in Placements : PlaceBuilding(b)
    \/ ClearBuildings
    \/ RebuildPathfindingGrid

SpecGrid == InitGrid /\ [][NextGrid]_worldVars

(* The building system of the scene together with the player, who stays   *)
(* by the tree, fells it and sees it respawn while buildings are placed    *)
(* on the first row of an open map and cleared                             *)
TownPlacements == {b \in Placements : b.y = 0}

InitTown ==
    \E stored \in {<<>>} \cup {<<b>> : b \in TownPlacements} :
        /\ \A i \in DOMAIN stored : isValidPlacement([scene |-> [collides |-> {}]], stored[i])
        /\ SceneInitWith([sawmill |-> FALSE, depositPoint |-> FALSE, open |-> TRUE,
                          player |-> TRUE, crew |-> {}, cap |-> MaxPending,
                          collides |-> {}], stored)

NextTown ==
    \/ \E b \in TownPlacements : PlaceBuilding(b)
    \/ ClearBuildings
    \/ ClearBuildingsSecond
    \/ \E t \in Trees : PlayerClick(t)
    \/ \E t \in Trees : PlayerArrive(t)
    \/ \E t \in Trees : SeqResume(t)
    \/ \E t \in Trees : Respawn(t)

SpecTown == InitTown /\ [][NextTown]_worldVars

(* The scene created with a list of buildings in the session storage that *)
(* the game did not write: a blob that does not parse, entries of an       *)
(* unknown type, entries with a coordinate that is not a number.  At the   *)
(* time of loadState the base grid is still empty (MainScene.create).      *)
InitLoad ==
    \E blob \in [parses : BOOLEAN,
                  entries : UNION {[1 .. n -> [type : BuildingTypes \cup {"unknown"},
                                               x : {0, NaN}, y : {0, NaN}]] :
                                   n \in 0 .. MaxStored}] :
        \E l \in {loadState([baseGrid |-> [p \in {} |-> 0], buildings |-> <<>>,
                              grid |-> [p \in {} |-> 0], obs |-> {}, inBounds |-> TRUE],
                             blob)} :
            /\ l.inBounds
            /\ SceneInitLoaded([sawmill |-> FALSE, depositPoint |-> FALSE, open |-> TRUE,
                                player |-> TRUE, crew |-> {}, cap |-> MaxPending,
                                collides |-> {}], l.buildings, l.obs)

SpecLoad == InitLoad /\ [][NextGrid]_worldVars

(* One lumberjack, one tree and a sawmill on open ground; the player takes *)
(* wood out of the sawmill through the building interface                  *)
TakeAmounts == {5}

InitMill ==
    SceneInit([sawmill |-> TRUE, depositPoint |-> FALSE, open |-> TRUE, player |-> FALSE,
               crew |-> {"w1"}, cap |-> MaxPendingCrowded, collides |-> {}])

NextMill ==
    \/ Tick
    \/ \E t \in Trees : Respawn(t)
    \/ HitAnimationDone
    \/ HitFallback
    \/ \E w \in Workers : Poll(w)
    \/ \E w \in Workers : Arrive(w)
    \/ \E w \in Workers : DepositTimer(w)
    \/ \E w \in Workers : Unlock(w)
    \/ \E amount \in TakeAmounts : CallRemoveResourceFromBuilding(amount)

SpecMill == InitMill /\ [][NextMill]_worldVars

(* The blacklists of the workers while time passes; the tree stays free *)
InitBlacklist ==
    SceneInit([sawmill |-> FALSE, depositPoint |-> FALSE, open |-> TRUE, player |-> FALSE,
               crew |-> {}, cap |-> MaxPending, collides |-> {}])

NextBlacklist ==
    \/ Advance
    \/ \E w \in Workers, t \in Trees : BlacklistTile(w, t)
    \/ \E w \in Workers : FindNearestTimed(w)
    \/ \E w \in Workers, t \in Trees : BlacklistTarget(w, t)
    \/ \E w \in Workers : UpdateWorkerSecond(w)

SpecBlacklist == InitBlacklist /\ [][NextBlacklist]_worldVars

(* A sawmill and a worker, and callers that add wood to the stock of the   *)
(* one or the inventory of the other and take wood from it                 *)
Amounts == 0 .. MaxInventory

InitStock ==
    SceneInit([sawmill |-> TRUE, depositPoint |-> FALSE, open |-> TRUE, player |-> FALSE,
               crew |-> {}, cap |-> MaxPending, collides |-> {}])

NextStock ==
    \/ \E amount \in Amounts : CallAddResourceToBuilding(amount)
    \/ \E amount \in Amounts : CallRemoveResourceFromBuilding(amount)
    \/ \E amount \in Amounts : CallAddToInventory("w1", amount)
    \/ \E amount \in Amounts : CallRemoveFromInventory("w1", amount)

SpecStock == InitStock /\ [][NextStock]_worldVars

---------------------------------------------------------------------------
(* Properties *)

TypeOK ==
    /\ \A t \in Trees : tree[t].currentHarvester \in Workers \cup {NoOne}
    /\ \A w \in Workers : wk[w].state \in WorkerState /\ wk[w].wood \in 0..MaxInventory

(* C1: reservation exclusivity.  Whenever setHarvester(b) returns true the *)
(* tree was unreserved or already reserved by b: while a holds the         *)
(* reservation (no releaseHarvester, no destruction since its              *)
(* setHarvester returned true) no other requester obtains it; and a        *)
(* refused call leaves the holder as it was.                               *)
C1_ReservationExclusive ==
    \A o \in obs :
        o.op = "setHarvester" =>
            /\ o.ret => o.pre.currentHarvester \in {NoOne, o.who}
            /\ o.ret => tree[o.t].currentHarvester = o.who
            /\ ~o.ret => tree[o.t].currentHarvester = o.pre.currentHarvester

(* C1 witness: a requester was refused a tree another requester holds *)
C1_Witness ==
    \E o \in obs :
        /\ o.op = "setHarvester" /\ ~o.ret
        /\ o.pre.currentHarvester \notin {NoOne, o.who}
        /\ ~o.pre.isDestroyed /\ ~o.pre.isBeingHit

(* C9: isAvailableForHarvest(requester) is true exactly when the tree is   *)
(* not destroyed, not being hit, and unreserved or reserved by requester   *)
C9_AvailableIff ==
    \A o \in obs :
        o.op = "available" =>
            (o.ret <=> /\ ~o.pre.isDestroyed
                       /\ ~o.pre.isBeingHit
                       /\ o.pre.currentHarvester \in {NoOne, o.who})

(* C9 witness: a query refused only because the tree is being hit *)
C9_Witness ==
    \E o \in obs :
        /\ o.op = "available" /\ ~o.ret
        /\ o.pre.isBeingHit /\ ~o.pre.isDestroyed
        /\ o.pre.currentHarvester \in {NoOne, o.who}

(* C5: a destroyed tree has health <= 0 and takes no interaction (no hit,  *)
(* no reservation, no positive availability answer) until it respawns      *)
C5_DestroyedIsDeadAndInert ==
    /\ \A t \in Trees : tree[t].isDestroyed => tree[t].health <= 0
    /\ \A o \in obs :
          /\ o.op = "hit" => ~o.pre.isDestroyed
          /\ o.op \in {"setHarvester", "available"} /\ o.pre.isDestroyed => ~o.ret

(* C6: with maxHealth 100 and damagePerHit 25 the tree is destroyed by     *)
(* exactly 4 hits: every hit is applied to a tree with health left, so a   *)
(* 5th hit is never applied before the respawn                             *)
C6_NoFifthHit ==
    \A o \in obs : o.op = "hit" => o.pre.health > 0

(* C7: the health of a tree stays within 0..maxHealth *)
C7_HealthInRange ==
    \A t \in Trees : tree[t].health >= 0 /\ tree[t].health <= tree[t].maxHealth

(* C8 as stated: no step taken while the tree is not destroyed raises its  *)
(* health                                                                  *)
C8_HealthOnlyDecreases ==
    [][\A t \in Trees : ~tree[t].isDestroyed => tree'[t].health <= tree[t].health]_worldVars

(* C8 amended: while the tree is not destroyed no hit raises its health;   *)
(* the health rises only when the healing timer or a respawn timer fires,  *)
(* and then to maxHealth                                                   *)
C8_HealthRisesOnlyByReset ==
    [][\A t \in Trees :
          (~tree[t].isDestroyed /\ tree'[t].health > tree[t].health) =>
              /\ tree'[t].health = tree[t].maxHealth
              /\ \/ (tree[t].healingTimer /\ ~tree'[t].healingTimer)
                 \/ tree'[t].respawnTimers < tree[t].respawnTimers
              /\ \A o \in obs' : o.op # "hit"]_worldVars

(* C8 witness: the healing timer has reset the health of a standing tree   *)
(* that had been hit                                                       *)
C8_Witness ==
    \E t \in Trees :
        /\ ~tree[t].isDestroyed /\ ~tree[t].healingTimer
        /\ tree[t].health = tree[t].maxHealth
        /\ tree[t].respawnTimers = 0
        /\ seqs[t] > 0

C2_WorkerProgress ==
    []<>(\E o \in obs : o.op = "deposit" /\ o.returned > 0)

(* C4: the base grid stays as it was computed from the map, and the        *)
(* pathfinding grid blocks exactly the colliding tiles of the map, the     *)
(* colliding tiles of the buildings now placed and the tiles of the        *)
(* trees: histories that end with the same buildings and trees give the    *)
(* same grid                                                               *)
C4_GridFunctionOfBuildings ==
    /\ baseGrid = computeBaseGrid(scene.collides)
    /\ \A p \in GridTiles :
          grid[p] = 1 <=>
              \/ p \in scene.collides
              \/ \E i \in DOMAIN buildings : p \in collidingTiles(buildings[i])
              \/ \E t \in Trees : p = treeTilePosition(t)

(* C10: a call of addResourceToBuilding never takes the stock above the    *)
(* capacity, and the stock afterwards is the stock before plus the         *)
(* returned amount, which is at most the amount offered                    *)
C10_StockClamping ==
    /\ stock >= 0 /\ stock <= Capacity
    /\ \A o \in obs :
          o.op = "addResource" =>
              /\ o.after <= Capacity
              /\ o.after = o.before + o.returned
              /\ o.returned >= 0 /\ o.returned <= o.amount
              /\ stock = o.after

(* C10 witness: capacity 20, holding 15, a deposit of 10 returns 5 and     *)
(* leaves 20                                                               *)
C10_Witness ==
    \E o \in obs :
        /\ o.op = "addResource"
        /\ o.before = 15 /\ o.amount = 10 /\ o.returned = 5 /\ o.after = 20
        /\ stock = 20

(* C11: over any sequence of addResourceToBuilding and                     *)
(* removeResourceFromBuilding calls the stock stays within 0..capacity,    *)
(* and removeResourceFromBuilding returns min(amount, current stock),      *)
(* never more than was asked for                                           *)
C11_StockInRange ==
    /\ stock \in 0 .. Capacity
    /\ \A o \in obs :
          o.op \in {"addResource", "removeResource"} => o.after \in 0 .. Capacity
    /\ \A o \in obs :
          o.op = "removeResource" =>
              /\ o.returned = (IF o.amount < o.before THEN o.amount ELSE o.before)
              /\ o.returned <= o.amount
              /\ o.after = o.before - o.returned

(* C11 witness: more wood was asked for than the sawmill holds; the call   *)
(* hands out what it holds                                                 *)
C11_Witness ==
    \E o \in obs :
        /\ o.op = "removeResource"
        /\ o.before > 0 /\ o.amount > o.before
        /\ o.returned = o.before /\ stock = 0

(* C12: addToInventory adds and returns min(amount, capacity - carried),   *)
(* so that the amount a worker carries never exceeds its capacity          *)
C12_InventoryCapped ==
    /\ \A w \in Workers : wk[w].wood <= MaxInventory
    /\ \A o \in obs :
          o.op = "addToInventory" =>
              /\ o.returned = (IF o.amount < MaxInventory - o.before
                               THEN o.amount ELSE MaxInventory - o.before)
              /\ o.after = o.before + o.returned
              /\ wk[o.who].wood = o.after

(* C12 witness: capacity 10, carrying 9, adding 3 adds 1 *)
C12_Witness ==
    \E o \in obs :
        /\ o.op = "addToInventory"
        /\ o.before = 9 /\ o.amount = 3 /\ o.returned = 1
        /\ wk[o.who].wood = 10

(* C14: a rebuild of the pathfinding grid that follows a rebuild, with no  *)
(* change to the buildings or the trees in between, yields the same matrix *)
C14_RebuildIdempotent ==
    \A o \in obs : (o.op = "rebuild" /\ o.again) => grid = o.before

(* C14 witness: the grid was rebuilt twice in a row with a building placed *)
C14_Witness ==
    \E o \in obs :
        /\ o.op = "rebuild" /\ o.again
        /\ buildings # <<>>
        /\ grid = o.before
        /\ \E p \in GridTiles : grid[p] = 1 /\ p \in collidingTiles(buildings[1])

(* C15: an exception raised in one worker's update does not keep the      *)
(* other workers from being updated in the same tick, and it does not      *)
(* leave the manager's update loop: the worker that raised it is reset to  *)
(* IDLE instead                                                            *)
C15_ExceptionContained ==
    \A o \in obs :
        o.op = "exception" =>
            /\ o.skipped = {}
            /\ ~o.propagated
            /\ wk[o.who].state = IDLE

(* C16: at scene start the stored entries with an invalid type or a        *)
(* coordinate that is not a number are removed before a placement call is  *)
(* replayed: every entry handed to placeBuilding is valid, none makes the  *)
(* replay stop, and no building with such a coordinate is placed           *)
C16_InvalidEntriesFiltered ==
    /\ \A o \in obs :
          o.op = "replay" =>
              /\ o.entry.type \in BuildingTypes
              /\ o.entry.x # NaN /\ o.entry.y # NaN
              /\ ~o.threw
    /\ \A i \in DOMAIN buildings : buildings[i].x # NaN /\ buildings[i].y # NaN


---------------------------------------------------------------------------
C19_SameTileNeverFails ==
    \A o \in obs : o.op = "pathNull" => ~(o.from = o.dest /\ o.sameTile)

C19_Witness ==
    \E o \in obs : o.op = "arrivedAtOnce" /\ o.blocked

(* C20: a worker that held the reservation of the tree it has hit, and     *)
(* whose harvest continues, still holds the reservation after the hit      *)
C20_ReservationKept ==
    \A o \in obs : (o.op = "harvestResult" /\ o.continues /\ o.heldBefore) => o.heldAfter

---------------------------------------------------------------------------
(* C21: an arrival, harvest or deposit continuation that runs when the     *)
(* worker has left the state it was scheduled in changes neither the       *)
(* worker's state, nor its target, nor the reservation of any tree         *)
C21_StaleContinuationInert ==
    \A o \in obs : (o.op = "continuation" /\ o.stale) => o.after = o.before

(* C22: whenever a hit of a worker destroys a tree, the handler that       *)
(* destroys it credits that worker once, with the yield of a tree or with  *)
(* the room left in its inventory if that is less                          *)
C22_YieldCreditedOnce ==
    \A o \in obs : (o.op = "destroy" /\ o.by \in scene.crew) =>
        /\ \E c \in obs : /\ c.op = "credit" /\ c.who = o.by
                          /\ c.amount = Min(WoodPerTree, MaxInventory - c.before)
        /\ Cardinality({c \in obs : c.op = "credit" /\ c.who = o.by}) = 1

C24_ReleaseOnlyOwn ==
    \A o \in obs : (o.op = "release" /\ o.who \in Workers) =>
        o.pre.currentHarvester \in {o.who, NoOne}

(* C25: a hit made by the player finds the tree reserved by no worker and  *)
(* with no worker hit in progress, and a hit made by a worker finds no     *)
(* player hit sequence in progress on the tree                             *)
C25_NoOverlappingDamage ==
    \A o \in obs : o.op = "hit" =>
        /\ o.by = "player" =>
              /\ o.pre.currentHarvester = NoOne
              /\ \A h \in BagToSet(hits) : h.t = o.t => h.resolved
        /\ o.by \in Workers => seqs[o.t] = 0

C27_DestroyedOncePerLife ==
    /\ \A o \in obs : o.op = "destroy" => ~o.pre.isDestroyed
    /\ \A t \in Trees : tree[t].respawnTimers <= 1

(* C29: a hit taken within the grace period, while the healing timer of an *)
(* interrupted sequence is pending, leaves no pending healing timer, so    *)
(* the reset to full health does not follow that hit                       *)
C29_HitCancelsReset ==
    \A o \in obs : (o.op = "hit" /\ o.pre.healingTimer) => ~tree[o.t].healingTimer

(* C30: a standing tree whose health has reached 0 keeps that health until *)
(* it is destroyed, so no healing comes between the last hit and the       *)
(* destruction; while a tree is destroyed its tile is blocked in the grid; *)
(* a respawn leaves the tree standing, not being hit, at full health, on a *)
(* grid rebuilt at that moment                                             *)
C30_FelledThenRestored ==
    /\ \A o \in obs : o.op = "heal" => (o.pre.health > 0 \/ o.pre.isDestroyed)
    /\ \A t \in Trees : tree[t].isDestroyed => grid[treeTilePosition(t)] = 1
    /\ \A o \in obs : o.op = "respawn" =>
          /\ ~tree[o.t].isDestroyed
          /\ ~tree[o.t].isBeingHit
          /\ tree[o.t].health = tree[o.t].maxHealth
          /\ grid = rebuildPathfindingGrid(World).grid

(* C31: the deposit made in a sawmill happens in the callback of the       *)
(* deposit timer, after the arrival; the sawmill's stock rises by the      *)
(* amount it accepts, the lumberjack's inventory falls by exactly that     *)
(* amount, so that the excess stays in the inventory, and the lumberjack   *)
(* is IDLE afterwards                                                      *)
C31_DepositKeepsExcess ==
    \A o \in obs : (o.op = "deposit" /\ o.to = "sawmill") =>
        /\ stock = o.before + o.returned
        /\ wk[o.who].wood = o.amount - o.returned
        /\ wk[o.who].state = IDLE
        /\ \E c \in obs : c.op = "continuation" /\ c.kind = "deposit" /\ c.who = o.who

C31_Witness ==
    \E o \in obs : /\ o.op = "deposit" /\ o.to = "sawmill"
                   /\ 0 < o.returned /\ o.returned < o.amount
                   /\ wk[o.who].wood > 0

(* C32: without a sawmill a lumberjack that moves to a storage has no      *)
(* storage building as target, no walk to a storage building is pending    *)
(* and a pending walk to deposit leads to the deposit point; a deposit     *)
(* at the point announces the whole carried amount, leaves the             *)
(* inventory empty and leaves the stock of the buildings as it was         *)
C32_DepositAtPoint ==
    /\ \A o \in obs : (o.op = "deposit" /\ o.to = "point") =>
          /\ o.amount > 0
          /\ o.returned = o.amount
          /\ wk[o.who].wood = 0
          /\ stock = 0
    /\ \A w \in scene.crew : (~scene.sawmill /\ wk[w].state = MOVING_TO_STORAGE) =>
          /\ wk[w].targetStorage = NoOne
          /\ \A c \in BagToSet(pend[w]) : c.k \in {"poll", "arrive"} =>
                /\ c.cb # "store"
                /\ (c.k = "poll" /\ c.cb = "point") => c.dest = DepositTile

C32_Witness ==
    \E o \in obs : /\ o.op = "deposit" /\ o.to = "point" /\ o.amount = MaxInventory
                   /\ wk[o.who].wood = 0 /\ wk[o.who].state = IDLE

(* C33: when a worker looks for a target, a key it has blacklisted is      *)
(* still excluded as long as no more than the blacklist duration has       *)
(* passed since it was added, and it is purged and selectable again once   *)
(* more than the duration has passed                                       *)
C33_ExcludedForDuration ==
    \A o \in obs : o.op = "listed" => (o.ret <=> (o.now - o.stamp > BlacklistDuration))

(* A scene with the trees of ForestOrder around one lumberjack, the other  *)
(* worker reserving trees of its own                                       *)
InitForest ==
    SceneInit([sawmill |-> FALSE, depositPoint |-> FALSE, open |-> TRUE, player |-> FALSE,
               crew |-> {}, cap |-> MaxPending, collides |-> {}])

NextForest ==
    \/ \E x \in 0 .. MaxX : ForestWalk(x)
    \/ \E t \in ForestTrees : ForestBlacklist(t)
    \/ ForestCleanup
    \/ \E t \in ForestTrees : ForestOtherSets(t, "w2")
    \/ \E t \in ForestTrees : ForestRelease(t)
    \/ ForestFind("w1")

SpecForest == InitForest /\ [][NextForest]_worldVars

(* The trees findNearestResource may return to w in forest f: within the   *)
(* work radius, or within 1.5 times the radius when none is within it      *)
C34_Qualifying(f, w, radius2) ==
    {t \in ForestTrees : /\ t \notin f.blacklistedTiles
                         /\ f.tree[t].currentHarvester \in {NoOne, w}
                         /\ 2 * distanceTo(f, t) <= radius2}

C34_Candidates(f, w) ==
    IF C34_Qualifying(f, w, 2 * WorkRadius) # {} THEN C34_Qualifying(f, w, 2 * WorkRadius)
    ELSE C34_Qualifying(f, w, 3 * WorkRadius)

(* C34: the tree findNearestResource returns is not blacklisted, not       *)
(* reserved by another worker, within the work radius (within 1.5 times    *)
(* the radius when no tree qualifies within it), no further away than any  *)
(* other such tree and now reserved for the lumberjack; setHarvester is    *)
(* asked of at most three trees, the nearest ones, and none is returned    *)
(* only when no tree qualifies or all that were asked refused              *)
C34_NearestClaimable ==
    \A o \in obs : o.op = "selected" =>
        LET q == C34_Candidates(o.pre, o.who)
            asked == {o.tried[i] : i \in 1 .. Len(o.tried)}
        IN /\ Len(o.tried) <= MaxCandidates
           /\ Cardinality(asked) = Len(o.tried)
           /\ asked \subseteq q
           /\ \A t \in asked : \A u \in q \ asked :
                  distanceTo(o.pre, t) <= distanceTo(o.pre, u)
           /\ \A i \in 1 .. Len(o.tried) - 1 :
                  distanceTo(o.pre, o.tried[i]) <= distanceTo(o.pre, o.tried[i + 1])
           /\ (q # {}) => o.tried # <<>>
           /\ o.ret # NoOne =>
                  /\ o.ret = o.tried[Len(o.tried)]
                  /\ forest.tree[o.ret].currentHarvester = o.who
           /\ o.ret = NoOne =>
                  \A t \in ForestTrees :
                      forest.tree[t].currentHarvester = o.pre.tree[t].currentHarvester

(* The nearest qualifying tree lies only within the extended radius, a     *)
(* nearer tree is reserved by the other worker and another is blacklisted  *)
C34_Witness ==
    \E o \in obs : /\ o.op = "selected" /\ o.ret # NoOne
                   /\ C34_Qualifying(o.pre, o.who, 2 * WorkRadius) = {}
                   /\ Cardinality(C34_Qualifying(o.pre, o.who, 3 * WorkRadius)) >= 2
                   /\ \E t \in ForestTrees : /\ o.pre.tree[t].currentHarvester = "w2"
                                              /\ distanceTo(o.pre, t) < distanceTo(o.pre, o.ret)
                   /\ \E t \in o.pre.blacklistedTiles :
                          distanceTo(o.pre, t) < distanceTo(o.pre, o.ret)

(* C35: the update of a lumberjack whose harvest has been in progress for  *)
(* longer than the harvest timeout leaves it IDLE, with no harvest in      *)
(* progress, without a target tree, and the tree it was harvesting is no   *)
(* longer reserved for it                                                  *)
C35_StuckHarvestReset ==
    \A o \in obs : o.op = "stuck" =>
        /\ wk[o.who].state = IDLE
        /\ ~wk[o.who].inProgress
        /\ wk[o.who].targetResource = NoOne
        /\ \A t \in Trees : tree[t].currentHarvester # o.who

(* A lumberjack timed out in HARVESTING with a target tree: the result of  *)
(* its hit never came because the tree was felled meanwhile                *)
C35_Witness ==
    \E o \in obs : /\ o.op = "stuck" /\ o.pre.state = HARVESTING
                   /\ o.pre.inProgress
                   /\ o.pre.targetResource # NoOne
                   /\ wk[o.who].state = IDLE
                   /\ wk[o.who].targetResource = NoOne

(* Two lumberjacks, one tree and the player, followed until the first hit  *)
(* of a lumberjack is due to land                                          *)
InitRivals ==
    SceneInit([sawmill |-> FALSE, depositPoint |-> FALSE, open |-> TRUE, player |-> TRUE,
               crew |-> {"w1", "w2"}, cap |-> MaxPendingCrowded,
               collides |-> {}])

NextRivals ==
    \/ Tick
    \/ \E t \in Trees : Respawn(t)
    \/ \E w \in Workers : Poll(w)
    \/ \E w \in Workers : Arrive(w)
    \/ \E t \in Trees : PlayerClick(t)
    \/ \E t \in Trees : PlayerArrive(t)
    \/ \E t \in Trees : SeqResume(t)

SpecRivals == InitRivals /\ [][NextRivals]_worldVars

(* C36: no two workers are at the same time on their way to, or            *)
(* harvesting, the same target tree                                        *)
C36_OneWorkerPerTree ==
    \A w1 \in scene.crew, w2 \in scene.crew :
        (/\ w1 # w2
         /\ wk[w1].state \in {MOVING_TO_RESOURCE, HARVESTING}
         /\ wk[w2].state \in {MOVING_TO_RESOURCE, HARVESTING}
         /\ wk[w1].targetResource # NoOne)
        => wk[w1].targetResource # wk[w2].targetResource

(* A sawmill without a deposit point on a map where path requests may     *)
(* find no path                                                            *)
InitSiege ==
    SceneInit([sawmill |-> TRUE, depositPoint |-> FALSE, open |-> FALSE, player |-> FALSE,
               crew |-> {"w1"}, cap |-> MaxPendingCrowded, collides |-> {}])

NextSiege ==
    \/ Tick
    \/ \E t \in Trees : Respawn(t)
    \/ HitAnimationDone
    \/ HitFallback
    \/ \E w \in Workers : Poll(w)
    \/ \E w \in Workers : Arrive(w)
    \/ \E w \in Workers : IdleTimer(w)
    \/ \E w \in Workers : DepositTimer(w)
    \/ \E w \in Workers : Unlock(w)

SpecSiege == InitSiege /\ [][NextSiege]_worldVars

(* C37: a worker has a target tree only in MOVING_TO_RESOURCE or           *)
(* HARVESTING, a target storage building only in MOVING_TO_STORAGE or      *)
(* DEPOSITING, never both, and neither while IDLE                          *)
C37_TargetMatchesState ==
    \A w \in scene.crew :
        /\ wk[w].targetResource # NoOne => wk[w].state \in {MOVING_TO_RESOURCE, HARVESTING}
        /\ wk[w].targetStorage # NoOne => wk[w].state \in {MOVING_TO_STORAGE, DEPOSITING}
        /\ ~(wk[w].targetResource # NoOne /\ wk[w].targetStorage # NoOne)
        /\ wk[w].state = IDLE => wk[w].targetResource = NoOne /\ wk[w].targetStorage = NoOne

(* One lumberjack and one tree; the game may remove the lumberjack at any  *)
(* moment, and another worker claims the tree when it finds it free        *)
InitRemoval ==
    SceneInit([sawmill |-> FALSE, depositPoint |-> FALSE, open |-> TRUE, player |-> FALSE,
               crew |-> {"w1"}, cap |-> MaxPendingCrowded,
               collides |-> {}])

NextRemoval ==
    \/ Tick
    \/ \E t \in Trees : Respawn(t)
    \/ HitAnimationDone
    \/ HitFallback
    \/ \E w \in Workers : Poll(w)
    \/ \E w \in Workers : Arrive(w)
    \/ \E w \in Workers : Unlock(w)
    \/ \E w \in Workers : RemoveWorker(w)
    \/ \E t \in Trees : OtherSelects(t, "w2")

SpecRemoval == InitRemoval /\ [][NextRemoval]_worldVars

C40_OneArrivalPoll ==
    \A w \in scene.crew :
        \A c \in BagToSet(pend[w]), d \in BagToSet(pend[w]) :
            (c.k = "poll" /\ d.k = "poll") => (c = d /\ CopiesIn(c, pend[w]) <= 1)

====
